---- MODULE Spec2Model ----
(***************************************************************************)
(* Model of the analytics agent pipeline of thelook:                       *)
(*   agents/nodes.py, agents/graph.py, agents/specialized_agents.py,       *)
(*   agents/state.py, services/bigquery_service.py,                        *)
(*   services/cache_service.py.                                            *)
(*                                                                         *)
(* Texts (SQL, error messages, requests) are sequences of atoms; an atom   *)
(* is a run of word characters, a whitespace run or a punctuation mark; a  *)
(* word is a maximal run of adjacent word atoms.  Optional values          *)
(* (None / value) are sequences of length 0 / 1.                           *)
(***************************************************************************)
EXTENDS Integers, Sequences, FiniteSets, TLC

\* ------------------------------------------------------------------------
\* Bounds of the model
\* ------------------------------------------------------------------------
MaxTicks == 2
MaxOps == 3
MaxExecutes == 2

\* ------------------------------------------------------------------------
\* Program constants
\* ------------------------------------------------------------------------
max_retries == 2
MAX_QUERY_ROWS == 10000
ttl_seconds == 3600
QUERY_TIMEOUT == 300

\* ------------------------------------------------------------------------
\* Optional values
\* ------------------------------------------------------------------------
None == <<>>
Some(v) == <<v>>
IsNone(o) == o = <<>>
Truthy(o) == o # <<>> /\ o[1] # <<>>

\* ------------------------------------------------------------------------
\* Text helpers (str methods and re patterns used by the code)
\* ------------------------------------------------------------------------
SpaceAtoms == {" ", "\n", "  "}

PunctAtoms == {"[fence]", ";", "(", ")", ": "}

IsWord(a) == a \notin SpaceAtoms /\ a \notin PunctAtoms

Upper(a) ==
  CASE a = "select" -> "SELECT"
    [] a = "drop" -> "DROP"
    [] a = "Drop" -> "DROP"
    [] a = "update" -> "UPDATE"
    [] a = "datediff" -> "DATEDIFF"
    [] a = "limit" -> "LIMIT"
    [] a = "sql" -> "SQL"
    [] a = "x" -> "X"
    [] a = "y" -> "Y"
    [] a = "_count" -> "_COUNT"
    [] a = "not found" -> "NOT FOUND"
    [] a = "column" -> "COLUMN"
    [] OTHER -> a

Lower(a) ==
  CASE a = "SELECT" -> "select"
    [] a = "DROP" -> "drop"
    [] a = "Drop" -> "drop"
    [] a = "UPDATE" -> "update"
    [] a = "DATEDIFF" -> "datediff"
    [] a = "LIMIT" -> "limit"
    [] a = "Not Found" -> "not found"
    [] a = "Column" -> "column"
    [] a = "TIMESTAMP" -> "timestamp"
    [] a = "DATE" -> "date"
    [] OTHER -> a

UpperText(t) == [i \in 1..Len(t) |-> Upper(t[i])]

RECURSIVE LStrip(_)
LStrip(t) == IF t # <<>> /\ Head(t) \in SpaceAtoms THEN LStrip(Tail(t)) ELSE t

RECURSIVE RStrip(_)
RStrip(t) ==
  IF t # <<>> /\ t[Len(t)] \in SpaceAtoms THEN RStrip(SubSeq(t, 1, Len(t) - 1)) ELSE t

Strip(t) == RStrip(LStrip(t))

RECURSIVE RStripSemicolon(_)
RStripSemicolon(t) ==
  IF t # <<>> /\ t[Len(t)] = ";" THEN RStripSemicolon(SubSeq(t, 1, Len(t) - 1)) ELSE t

\* str.split() followed by " ".join(...): whitespace runs become one blank,
\* leading and trailing whitespace disappears.
RECURSIVE CollapseSpaces(_)
CollapseSpaces(t) ==
  IF t = <<>> THEN <<>>
  ELSE IF Head(t) \in SpaceAtoms
       THEN LET rest == LStrip(t)
            IN IF rest = <<>> THEN <<>> ELSE <<" ">> \o CollapseSpaces(rest)
       ELSE <<Head(t)>> \o CollapseSpaces(Tail(t))

SplitJoin(t) == CollapseSpaces(Strip(t))

\* the markdown clean-up shared by generate_sql, the specialized agents and
\* the recovery path: strip, drop a leading fence (with or without the sql
\* tag), drop a trailing fence; "[fence]" stands for three backquotes
StripFenceHead(t) ==
  IF Len(t) >= 2 /\ t[1] = "[fence]" /\ t[2] = "sql" THEN SubSeq(t, 3, Len(t))
  ELSE IF Len(t) >= 1 /\ t[1] = "[fence]" THEN Tail(t)
  ELSE t

StripFenceTail(t) ==
  IF t # <<>> /\ t[Len(t)] = "[fence]" THEN SubSeq(t, 1, Len(t) - 1) ELSE t

CleanSql(raw) == Strip(StripFenceTail(StripFenceHead(Strip(raw))))

\* re.search of a keyword between word boundaries: an atom equal to one of the given spellings
\* whose neighbours are not word atoms
WordAt(t, i, spellings) ==
  /\ t[i] \in spellings
  /\ (i > 1 => ~IsWord(t[i - 1]))
  /\ (i < Len(t) => ~IsWord(t[i + 1]))

HasWord(t, spellings) == \E i \in 1..Len(t) : WordAt(t, i, spellings)

\* 'lit' in t  for a literal that lies inside one atom
HasAtom(t, atoms) == \E i \in 1..Len(t) : t[i] \in atoms

\* ------------------------------------------------------------------------
\* Data drawn by the collaborators
\* ------------------------------------------------------------------------
\* A DataFrame object: its shape and its identity.  obj = 0 is an object that
\* was just created and is referenced by its creator only, obj >= 1 an object
\* a caller of the cache holds, obj = -1 an object only the cache references.
Fresh == 0
CacheOwned == 0 - 1

Table(r, c) == [rows |-> r, cols |-> c, obj |-> Fresh]

\* DataFrame.copy(): the same value in a new object
Copy(df, owner) == [rows |-> df.rows, cols |-> df.cols, obj |-> owner]

\* result tables, by shape
Tables == { Table(0, 1), Table(1, 1), Table(3, 2) }

\* error messages raised by the BigQuery client
ErrorMsgs ==
  { <<"Table", " ", "not found">>,
    <<"Function", " ", "DATEDIFF">>,
    <<"Function", " ", "not found", ": ", "DATEDIFF">>,
    <<"Syntax error">> }

\* the messages the client raises as GoogleCloudError
CloudMsgs ==
  { <<"Table", " ", "not found">>,
    <<"Function", " ", "not found", ": ", "DATEDIFF">> }

\* outcome of one client.query(...).result().to_dataframe()
ClientOutcomes ==
  [ok : {TRUE}, table : Tables, msg : {<<>>}, cloud : {FALSE}]
    \cup { [ok |-> FALSE, table |-> Table(0, 1), msg |-> m,
              cloud |-> (m \in CloudMsgs)] : m \in ErrorMsgs }

\* ------------------------------------------------------------------------
\* CacheService (services/cache_service.py)
\* ------------------------------------------------------------------------
\* variant: the text is not upper-cased
_generate_cache_key_cased(query, limit_rows) ==
  [query |-> SplitJoin(query), limit_rows |-> limit_rows]

\* The MD5 digest of the key material is modelled by the key material itself.
_generate_cache_key(query, limit_rows) ==
  [query |-> SplitJoin(UpperText(query)), limit_rows |-> limit_rows]

CacheRemove(c, key) == [k \in (DOMAIN c) \ {key} |-> c[k]]

CacheStore(c, key, item) == [k \in (DOMAIN c) \cup {key} |-> IF k = key THEN item ELSE c[k]]

\* variant: the comparison the wrong way round
IsExpiredForGet_inverted(item, t) == t < item.expires_at

IsExpiredForGet(item, t) == t > item.expires_at

\* returns the value handed back and the cache afterwards
get_cached_result(c, query, limit_rows, t) ==
  LET cache_key == _generate_cache_key(query, limit_rows)
  IN IF cache_key \notin DOMAIN c
       THEN [result |-> None, cache |-> c]
     ELSE IF IsExpiredForGet(c[cache_key], t)
       THEN [result |-> None, cache |-> CacheRemove(c, cache_key)]
     ELSE [result |-> Some(Copy(c[cache_key].result, Fresh)), cache |-> c]

\* variant: the caller's table is stored itself, not a copy of it
cache_result_nocopy(c, query, result, limit_rows, t) ==
  CacheStore(c, _generate_cache_key(query, limit_rows),
             [result |-> result, expires_at |-> t + ttl_seconds,
              cached_at |-> t, query |-> query])

cache_result(c, query, result, limit_rows, t) ==
  CacheStore(c, _generate_cache_key(query, limit_rows),
             [result |-> Copy(result, CacheOwned), expires_at |-> t + ttl_seconds,
              cached_at |-> t, query |-> query])

\* variant: an entry that expires right now counts as valid
get_cache_stats_late(c, t) ==
  LET valid_entries == Cardinality({k \in DOMAIN c : c[k].expires_at >= t})
  IN [total_entries |-> Cardinality(DOMAIN c),
      valid_entries |-> valid_entries,
      expired_entries |-> Cardinality(DOMAIN c) - valid_entries,
      ttl_seconds |-> ttl_seconds]

get_cache_stats(c, t) ==
  LET valid_entries == Cardinality({k \in DOMAIN c : c[k].expires_at > t})
  IN [total_entries |-> Cardinality(DOMAIN c),
      valid_entries |-> valid_entries,
      expired_entries |-> Cardinality(DOMAIN c) - valid_entries,
      ttl_seconds |-> ttl_seconds]

\* variant: an entry that expires right now is kept
cleanup_expired_late(c, t) ==
  LET expired_keys == {k \in DOMAIN c : c[k].expires_at < t}
  IN [cache |-> [k \in (DOMAIN c) \ expired_keys |-> c[k]],
      expired_count |-> Cardinality(expired_keys)]

\* returns the count handed back and the cache afterwards
cleanup_expired(c, t) ==
  LET expired_keys == {k \in DOMAIN c : c[k].expires_at <= t}
  IN [cache |-> [k \in (DOMAIN c) \ expired_keys |-> c[k]],
      expired_count |-> Cardinality(expired_keys)]

\* ------------------------------------------------------------------------
\* BigQueryService.execute_query (services/bigquery_service.py)
\* ------------------------------------------------------------------------
enable_cache == TRUE

LimitTruthy(limit_rows) == limit_rows # None /\ limit_rows[1] # 0

HasLimit(query) == HasAtom(UpperText(query), {"LIMIT"})

\* the text handed to the client: LIMIT is appended when absent
QueryWithLimit(query, limit_rows) ==
  IF LimitTruthy(limit_rows) /\ ~HasLimit(query)
    THEN RStripSemicolon(query) \o <<" ", "LIMIT", " ", ToString(limit_rows[1])>>
    ELSE query

HeadRows(df, limit_rows) ==
  IF LimitTruthy(limit_rows) /\ df.rows > limit_rows[1]
    THEN [df EXCEPT !.rows = limit_rows[1]]
    ELSE df

\* the text under which a fresh result is cached
CachedUnder(query, limit_rows) == QueryWithLimit(query, limit_rows)

\* variant: the use_cache argument is not consulted
BqExecuteQuery_cachealways(c, query, limit_rows, use_cache, t, out) ==
  LET looked == get_cached_result(c, query, limit_rows, t)
      sent == QueryWithLimit(query, limit_rows)
      df == HeadRows(out.table, limit_rows)
  IN IF looked.result # None
       THEN [ok |-> TRUE, df |-> looked.result[1], msg |-> <<>>, cache |-> looked.cache,
             called |-> FALSE, sent |-> <<>>, from_cache |-> TRUE]
     ELSE IF out.ok
       THEN [ok |-> TRUE, df |-> df, msg |-> <<>>,
             cache |-> cache_result(looked.cache, CachedUnder(query, limit_rows),
                                    df, limit_rows, t),
             called |-> TRUE, sent |-> sent, from_cache |-> FALSE]
     ELSE [ok |-> FALSE, df |-> out.table,
           msg |-> (IF out.cloud THEN <<"BigQuery error", ": ">>
                    ELSE <<"Query execution failed", ": ">>) \o out.msg,
           cache |-> looked.cache, called |-> TRUE, sent |-> sent, from_cache |-> FALSE]

\* One call of BigQueryService.execute_query.  out is what the client does if
\* it is called.  Result: ok/df or the RuntimeError message, the cache
\* afterwards, whether the client was called and with which text.
BqExecuteQuery(c, query, limit_rows, use_cache, t, out) ==
  LET caching == enable_cache /\ use_cache
      looked == IF caching THEN get_cached_result(c, query, limit_rows, t)
                ELSE [result |-> None, cache |-> c]
      sent == QueryWithLimit(query, limit_rows)
      df == HeadRows(out.table, limit_rows)
  IN IF looked.result # None
       THEN [ok |-> TRUE, df |-> looked.result[1], msg |-> <<>>, cache |-> looked.cache,
             called |-> FALSE, sent |-> <<>>, from_cache |-> TRUE]
     ELSE IF out.ok
       THEN [ok |-> TRUE, df |-> df, msg |-> <<>>,
             cache |-> IF caching
                         THEN cache_result(looked.cache, CachedUnder(query, limit_rows),
                                           df, limit_rows, t)
                         ELSE looked.cache,
             called |-> TRUE, sent |-> sent, from_cache |-> FALSE]
     ELSE [ok |-> FALSE, df |-> out.table,
           msg |-> (IF out.cloud THEN <<"BigQuery error", ": ">>
                    ELSE <<"Query execution failed", ": ">>) \o out.msg,
           cache |-> looked.cache, called |-> TRUE, sent |-> sent, from_cache |-> FALSE]

\* ------------------------------------------------------------------------
\* Requests and generated texts
\* ------------------------------------------------------------------------
\* request texts (already split into atoms)
Queries ==
  { <<"count", " ", "orders">>,
    <<"customer", " ", "by", " ", "state">>,
    <<"top", " ", "product">> }

\* raw answers of the text-generation collaborator to a SQL prompt
SqlAnswers ==
  { <<"SELECT", " ", "x">>,
    <<"[fence]", "sql", "\n", "SELECT", " ", "x", "\n", "[fence]">>,
    <<"SELECT", " ", "DATEDIFF", "(", "x", ")">>,
    <<"SELECT", " ", "x", " ", "LIMIT", " ", "1">>,
    <<"DROP", " ", "x">>,
    <<"select", " ", "x">> }

\* raw answers of the text-generation collaborator to a recovery prompt
RecoveryAnswers ==
  { <<"SELECT", " ", "y">>,
    <<"[fence]", "\n", "SELECT", " ", "y", "[fence]">>,
    <<"DROP", " ", "y">> }

InsightAnswers == { <<"insight">> }

LlmFailure == <<"LLM generation failed", ": ", "timeout">>

\* outcome of one llm_service.generate_text call: the text or the error raised
LlmOutcomes(answers) ==
  [ok : {TRUE}, text : answers] \cup [ok : {FALSE}, text : {LlmFailure}]

\* ------------------------------------------------------------------------
\* agents/state.py
\* ------------------------------------------------------------------------
create_initial_state(query) ==
  [ query |-> query,
    sql_query |-> None,
    query_result |-> None,
    insights |-> None,
    visualization_spec |-> None,
    error |-> None,
    query_metadata |-> None,
    retry_count |-> 0,
    previous_errors |-> None ]

\* ------------------------------------------------------------------------
\* understand_query (agents/nodes.py) and route_to_agent
\* (agents/specialized_agents.py)
\* ------------------------------------------------------------------------
\* kw in query.lower(): the atoms of the request vocabulary that contain the
\* keyword as a substring (a keyword of two words lies in no atom of the
\* vocabulary)
AtomsWith(kw) ==
  CASE kw = "count" -> {"count", "country"}
    [] kw = "state" -> {"state"}
    [] kw = "country" -> {"country"}
    [] kw = "customer" -> {"customer"}
    [] kw = "age" -> {"age", "average"}
    [] kw = "average" -> {"average"}
    [] kw = "top" -> {"top"}
    [] kw = "product" -> {"product"}
    [] kw = "revenue" -> {"revenue"}
    [] kw = "trend" -> {"trend"}
    [] kw = "and" -> {"and"}
    [] OTHER -> {kw}

AnyIn(kws, query) == \E kw \in kws : HasAtom(query, AtomsWith(kw))

understand_query(st) ==
  LET query == st.query
      query_type ==
        IF AnyIn({"count", "number", "how many"}, query) THEN "count"
        ELSE IF AnyIn({"top", "best", "highest", "most"}, query) THEN "ranking"
        ELSE IF AnyIn({"average", "mean", "avg"}, query) THEN "aggregation"
        ELSE IF AnyIn({"trend", "over time", "by month", "by year"}, query) THEN "temporal"
        ELSE IF AnyIn({"customer", "user", "segment"}, query) THEN "customer_analysis"
        ELSE IF AnyIn({"product", "item", "catalog"}, query) THEN "product_analysis"
        ELSE IF AnyIn({"revenue", "sales", "income"}, query) THEN "sales_analysis"
        ELSE "general"
      complexity0 ==
        IF query_type \in {"count", "general"} THEN "simple"
        ELSE IF query_type = "temporal" THEN "complex"
        ELSE "medium"
      complexity ==
        IF AnyIn({"join", "with", "and"}, query) THEN "complex" ELSE complexity0
  IN [st EXCEPT !.query_metadata = Some([type |-> query_type, complexity |-> complexity])]

geo_keywords ==
  {"geographic", "by location", "by state", "by country", "by region", "by city",
   "location", "state", "country", "region", "city"}
customer_keywords == {"customer", "user", "segment", "demographic", "age", "gender"}
product_keywords == {"product", "item", "catalog", "inventory", "category", "brand"}
temporal_keywords ==
  {"trend", "over time", "by month", "by year", "by day", "growth", "decline", "seasonal"}
sales_keywords == {"revenue", "sales", "income", "profit"}

\* variant: the customer keywords are looked at before the geographic ones
route_to_agent_customer_first(st) ==
  LET query == st.query
      query_type == IF st.query_metadata = None THEN "general"
                    ELSE st.query_metadata[1].type
  IN IF AnyIn(customer_keywords, query) \/ query_type = "customer_analysis"
       THEN "customer_segmentation"
     ELSE IF AnyIn(geo_keywords, query) THEN "geographic"
     ELSE IF AnyIn(product_keywords, query) \/ query_type = "product_analysis"
       THEN "product_performance"
     ELSE IF AnyIn(temporal_keywords \cup sales_keywords, query)
             \/ query_type \in {"temporal", "sales_analysis"}
       THEN "sales_trends"
     ELSE "general"

\* variant: the classification is not looked at
route_to_agent_keywords_only(st) ==
  LET query == st.query
  IN IF AnyIn(geo_keywords, query) THEN "geographic"
     ELSE IF AnyIn(customer_keywords, query) THEN "customer_segmentation"
     ELSE IF AnyIn(product_keywords, query) THEN "product_performance"
     ELSE IF AnyIn(temporal_keywords \cup sales_keywords, query) THEN "sales_trends"
     ELSE "general"

route_to_agent(st) ==
  LET query == st.query
      query_type == IF st.query_metadata = None THEN "general"
                    ELSE st.query_metadata[1].type
  IN IF AnyIn(geo_keywords, query) THEN "geographic"
     ELSE IF AnyIn(customer_keywords, query) \/ query_type = "customer_analysis"
       THEN "customer_segmentation"
     ELSE IF AnyIn(product_keywords, query) \/ query_type = "product_analysis"
       THEN "product_performance"
     ELSE IF AnyIn(temporal_keywords \cup sales_keywords, query)
             \/ query_type \in {"temporal", "sales_analysis"}
       THEN "sales_trends"
     ELSE "general"

\* variant: the router records its decision in the state
RoutedState_recorded(st) ==
  [st EXCEPT !.query_metadata =
     Some([type |-> route_to_agent(st), complexity |-> "medium"])]

\* the state after route_to_agent: the function reads the state with
\* state.get and assigns nothing to it
RoutedState(st) == st

\* ------------------------------------------------------------------------
\* validate_sql (agents/nodes.py)
\* ------------------------------------------------------------------------
forbidden_keywords ==
  <<"DROP", "DELETE", "INSERT", "UPDATE", "ALTER", "CREATE", "TRUNCATE">>

\* variant: the keyword is looked for as a substring, without word boundaries
KeywordFound_substring(sql, keyword) == HasAtom(sql, {keyword})

\* re.search(pattern, sql): the pattern is the upper-case keyword and the
\* search is case-sensitive
KeywordFound(sql, keyword) == HasWord(sql, {keyword})

FirstForbidden(sql) ==
  LET hits == {i \in 1..Len(forbidden_keywords) : KeywordFound(sql, forbidden_keywords[i])}
  IN IF hits = {} THEN 0 ELSE CHOOSE i \in hits : \A j \in hits : i <= j

\* "SELECT" not in sql
ContainsSelect(sql) == HasAtom(sql, {"SELECT", "SELECTED"})

\* variant: the DATEDIFF advice is an error
ValidationError_strict(sql) ==
  IF FirstForbidden(sql) # 0
    THEN Some(<<"Query contains forbidden operation", ": ",
                forbidden_keywords[FirstForbidden(sql)]>>)
  ELSE IF ~ContainsSelect(sql) THEN Some(<<"Query must be a SELECT statement">>)
  ELSE IF HasWord(sql, {"DATEDIFF", "datediff"})
    THEN Some(<<"Use DATE_DIFF instead of DATEDIFF">>)
  ELSE None

\* the error validate_sql writes for a text, None when it accepts; the checks
\* of the dataset reference and of DATEDIFF (lines 143-161) write nothing
ValidationError(sql) ==
  IF FirstForbidden(sql) # 0
    THEN Some(<<"Query contains forbidden operation", ": ",
                forbidden_keywords[FirstForbidden(sql)]>>)
  ELSE IF ~ContainsSelect(sql) THEN Some(<<"Query must be a SELECT statement">>)
  ELSE None

validate_sql(st) ==
  IF Truthy(st.error) THEN st
  ELSE IF ValidationError(st.sql_query[1]) # None
    THEN [st EXCEPT !.error = ValidationError(st.sql_query[1])]
  ELSE st

\* ------------------------------------------------------------------------
\* _recover_from_error (agents/nodes.py)
\* ------------------------------------------------------------------------
\* variant: the list is started afresh at every failure
Append1_afresh(prev, msg) == Some(<<msg>>)

Append1(prev, msg) == IF prev = None THEN Some(<<msg>>) ELSE Some(Append(prev[1], msg))

\* re.sub of whole-word DATEDIFF (any case) by DATE_DIFF
SubDatediff(sql) ==
  [i \in 1..Len(sql) |->
     IF WordAt(sql, i, {"DATEDIFF", "datediff"}) THEN "DATE_DIFF" ELSE sql[i]]

MentionsDatediff(error_msg, failed_sql) ==
  \/ HasAtom(UpperText(error_msg), {"DATEDIFF"})
  \/ HasWord(failed_sql, {"DATEDIFF", "datediff"})

TimestampMismatch(error_msg) ==
  \/ /\ HasAtom(error_msg, {"TIMESTAMP"})
     /\ HasAtom(error_msg, {"DATE", "DATEDIFF", "DATE_DIFF", "UPDATE",
                            "DATE_DIFF does not support"})
  \/ HasAtom(error_msg, {"DATE_DIFF does not support"})

NotFoundOrColumn(error_msg) ==
  LET low == [i \in 1..Len(error_msg) |-> Lower(error_msg[i])]
  IN HasAtom(low, {"not found", "column"})

\* schema_service.build_schema_context(include_examples=False)
schema_context == <<"DATABASE SCHEMA">>

\* the recovery prompt, by the four texts it is built from
get_error_recovery_prompt(user_query, failed_query, error_message, context) ==
  [user_query |-> user_query, failed_query |-> failed_query,
   error_message |-> error_message, schema_context |-> context]

\* whether the recovery makes the delegated text-generation call
RecoveryCallsLlm(error_msg, llm_available) ==
  llm_available /\ (TimestampMismatch(error_msg) \/ NotFoundOrColumn(error_msg))

\* variant: a failure of the delegated call is swallowed and the retry goes on
_recover_from_error_swallow(st, error_msg, llm_available, llm) ==
  LET failed_sql == IF st.sql_query = None THEN <<>> ELSE st.sql_query[1]
      st1 == [st EXCEPT !.previous_errors = Append1(st.previous_errors, error_msg)]
  IN [st1 EXCEPT !.sql_query = Some(failed_sql), !.error = None]

_recover_from_error(st, error_msg, llm_available, llm) ==
  LET failed_sql == IF st.sql_query = None THEN <<>> ELSE st.sql_query[1]
      st1 == [st EXCEPT !.previous_errors = Append1(st.previous_errors, error_msg)]
      fixed == IF MentionsDatediff(error_msg, failed_sql)
                 THEN SubDatediff(failed_sql) ELSE failed_sql
  IN IF RecoveryCallsLlm(error_msg, llm_available)
       THEN IF llm.ok
              THEN [st1 EXCEPT !.sql_query = Some(CleanSql(llm.text)), !.error = None]
              ELSE st1
       ELSE [st1 EXCEPT !.sql_query = Some(fixed), !.error = None]

\* the recovery left the error in place (the delegated call failed)
GaveUp(error_msg, llm_available, llm) ==
  RecoveryCallsLlm(error_msg, llm_available) /\ ~llm.ok

\* ------------------------------------------------------------------------
\* execute_query (agents/nodes.py): the pieces of one frame
\* ------------------------------------------------------------------------
\* variant: off by one, a third attempt is allowed
AtRetryBound_late(retry_count) == retry_count > max_retries

AtRetryBound(retry_count) == retry_count >= max_retries

\* variant: a failed attempt is counted twice
NextRetryCount_twice(retry_count) == retry_count + 2

NextRetryCount(retry_count) == retry_count + 1

\* variant: the retry counter is not reset
OnSuccess_noreset(st, result) ==
  [st EXCEPT !.query_result = Some(result),
             !.error = IF Truthy(st.error) THEN None ELSE st.error]

OnSuccess(st, result) ==
  [st EXCEPT !.query_result = Some(result),
             !.error = IF Truthy(st.error) THEN None ELSE st.error,
             !.retry_count = 0]

OnFailure(st, error_msg) ==
  [st EXCEPT !.error = Some(<<"Query execution failed", ": ">> \o error_msg)]

\* ------------------------------------------------------------------------
\* analyze_results and create_visualization (agents/nodes.py,
\* services/visualization_service.py)
\* ------------------------------------------------------------------------
QueryType(st) == IF st.query_metadata = None THEN "default" ELSE st.query_metadata[1].type

\* variant: a failed text generation leaves a placeholder in insights
analyze_results_placeholder(st, llm_available, llm) ==
  IF Truthy(st.error) \/ st.query_result = None THEN st
  ELSE IF ~llm_available
    THEN [st EXCEPT !.insights = Some(<<"template">>)]
  ELSE IF llm.ok THEN [st EXCEPT !.insights = Some(llm.text)]
  ELSE [st EXCEPT !.insights = Some(<<"template">>),
                  !.error = Some(<<"Insight generation failed", ": ">> \o llm.text)]

analyze_results(st, llm_available, llm) ==
  IF Truthy(st.error) \/ st.query_result = None THEN st
  ELSE IF ~llm_available
    THEN IF QueryType(st) \in {"ranking", "aggregation"}
           THEN [st EXCEPT !.error = Some(<<"Insight generation failed", ": ", "KeyError">>)]
           ELSE [st EXCEPT !.insights = Some(<<"template">>)]
  ELSE IF llm.ok THEN [st EXCEPT !.insights = Some(llm.text)]
  ELSE [st EXCEPT !.error = Some(<<"Insight generation failed", ": ">> \o llm.text)]

detect_chart_type(df, query_type) ==
  IF df.rows = 0 \/ df.cols = 0 THEN "none"
  ELSE IF df.cols = 1 THEN "table"
  ELSE IF df.cols = 2 THEN (IF df.rows <= 20 THEN "bar" ELSE "line")
  ELSE IF query_type = "temporal" THEN "line"
  ELSE IF query_type \in {"ranking", "product_analysis", "sales_analysis"} THEN "bar"
  ELSE "table"

\* variant: the shape of the table is not looked at
VizSpec_unchecked(df, query_type, chart_ok) ==
  IF chart_ok THEN Some([type |-> detect_chart_type(df, query_type)]) ELSE None

\* VisualizationService.create_visualization; chart_ok: the chart builder
\* did not raise
VizSpec(df, query_type, chart_ok) ==
  IF df.rows = 0 \/ df.cols = 0 THEN None
  ELSE IF detect_chart_type(df, query_type) \in {"none", "table"} THEN None
  ELSE IF df.cols < 2 THEN None
  ELSE IF chart_ok THEN Some([type |-> detect_chart_type(df, query_type)])
  ELSE None

\* variant: the error guard is missing
create_visualization_unguarded(st, chart_ok) ==
  IF st.query_result = None THEN st
  ELSE [st EXCEPT !.visualization_spec =
                     VizSpec(st.query_result[1], QueryType(st), chart_ok)]

create_visualization(st, chart_ok) ==
  IF Truthy(st.error) \/ st.query_result = None THEN st
  ELSE [st EXCEPT !.visualization_spec =
                     VizSpec(st.query_result[1], QueryType(st), chart_ok)]

\* ------------------------------------------------------------------------
\* State
\* ------------------------------------------------------------------------
VARIABLES
  state,          \* the AgentState of the current run
  pc,             \* the graph node about to run, "END", or "RAISED"
  use_specialized_agents,  \* argument of run_agent
  in_agent,       \* "" or the specialized agent node that is running
  llm_available,  \* _llm_service is not None
  cache,          \* CacheService._query_cache of the shared BigQueryService
  now,            \* the clock read by datetime.now(UTC)
  ticks,          \* number of clock advances so far
  calls,          \* per-run counts of collaborator calls, the prompt and the
                  \* outcome of the last text-generation call of the recovery,
                  \* the message of the last failed execution,
                  \* and the SQL texts whose execution failed
  last,           \* the node that ran last, the state and call counts it was
                  \* given, and what the execution did
  svc,            \* the last direct call of the service or the cache: arguments,
                  \* cache before, time, what it returned; in a run, the call
                  \* of the execution collaborator that has not returned
  done,           \* the cached executions that succeeded so far: text, limit, time
  ops,            \* number of direct calls so far
  held,           \* the tables a direct caller of the cache holds: those it
                  \* handed to cache_result and those get_cached_result returned
  putlog,         \* per cache key, the value and the time of the last cache_result
  thr,            \* per thread that calls the shared cache: the call it is in,
                  \* the statement it is at and its local variables
  stored,         \* every (key, value) a cache_result of a thread has stored
  tracks          \* the same generated SQL taken through the general and through
                  \* a specialized workflow: the collaborator outcomes both are
                  \* given and the state each returns

vars == <<state, pc, use_specialized_agents, in_agent, llm_available,
          cache, now, ticks, calls, last, svc, done, ops, held, putlog, thr, stored,
          tracks>>

concVars == <<thr, stored>>

svcVars == <<svc, done, ops, held, putlog, thr, stored>>

pipeVars == <<state, pc, use_specialized_agents, in_agent, llm_available, calls, last,
              tracks>>

NoCall == [op |-> "none", query |-> <<>>, limit_rows |-> None, use_cache |-> FALSE,
           pre_cache |-> [k \in {} |-> 0], pre_done |-> {}, at |-> 0,
           ok |-> FALSE, result |-> None, called |-> FALSE]

Threads == {1, 2}

\* a thread that is in no call of the cache
IdleThread ==
  [pc |-> "idle", op |-> "none", query |-> <<>>, limit_rows |-> None, df |-> None,
   item |-> None, at |-> 0, todo |-> {}, size |-> 0, expired_keys |-> {},
   result |-> None, failed |-> ""]

NoCalls == [execute |-> 0, client |-> 0, client_failed |-> 0, recover |-> 0,
            gave_up |-> 0, llm |-> 0, prompt |-> None, answer |-> None,
            error_msg |-> None, failed_sql |-> {}]

EmptyCache == [k \in {} |-> 0]

\* no comparison of the two workflows is under way
NoTracks == [agent |-> "", sql |-> <<>>, outs |-> <<>>, llms |-> <<>>, insight |-> None,
             chart_ok |-> FALSE, general |-> None, specialized |-> None]

\* The services are module-level singletons that outlive a run: a run starts
\* with the cache empty or holding what an earlier run's successful execution
\* of an accepted SQL text stored at time 0.
WarmCaches ==
  {EmptyCache} \cup
  { cache_result(EmptyCache, CachedUnder(CleanSql(a), Some(MAX_QUERY_ROWS)),
                 Table(1, 1), Some(MAX_QUERY_ROWS), 0) :
      a \in {b \in SqlAnswers : ValidationError(CleanSql(b)) = None} }

Init ==
  /\ \E q \in Queries : state = create_initial_state(q)
  /\ pc = "understand_query"
  /\ use_specialized_agents \in BOOLEAN
  /\ in_agent = ""
  /\ llm_available \in BOOLEAN
  /\ cache \in WarmCaches
  /\ now = 0
  /\ ticks = 0
  /\ calls = NoCalls
  /\ last = [op |-> "init", pre |-> state, calls |-> NoCalls, outcome |-> ""]
  /\ svc = NoCall
  /\ done = {}
  /\ ops = 0
  /\ held = {}
  /\ putlog = EmptyCache
  /\ thr = [t \in Threads |-> IdleThread]
  /\ stored = {}
  /\ tracks = NoTracks

RanWith(op, outcome) == last' = [op |-> op, pre |-> state, calls |-> calls, outcome |-> outcome]

Ran(op) == RanWith(op, "")

\* how deep execute_query is nested when the node about to run is entered:
\* the invocation in which the last execution failed has not returned yet
Depth == IF last.op = "execute_query" THEN last.frame ELSE 0

\* an invocation of execute_query ran, one deeper than the one that called it
RanFrame(outcome) ==
  last' = [op |-> "execute_query", pre |-> state, calls |-> calls, outcome |-> outcome,
           frame |-> Depth + 1]

\* ------------------------------------------------------------------------
\* agents/graph.py: edges
\* ------------------------------------------------------------------------
should_continue(st) ==
  IF Truthy(st.error) THEN "end"
  ELSE IF st.sql_query = None THEN "generate_sql"
  ELSE IF st.query_result = None
    THEN (IF Truthy(st.sql_query) THEN "execute_query" ELSE "end")
  ELSE IF st.insights = None THEN "analyze_results"
  ELSE "create_visualization"

\* variant: the agent goes on to execute_query whatever validate_sql found
AfterValidate_unchecked(st, agent) ==
  IF agent = ""
    THEN (IF should_continue(st) = "execute_query" THEN "execute_query"
          ELSE IF should_continue(st) = "end" THEN "END"
          ELSE "RAISED")
    ELSE "execute_query"

\* where control goes after validate_sql
AfterValidate(st, agent) ==
  IF agent = ""
    THEN (IF should_continue(st) = "execute_query" THEN "execute_query"
          ELSE IF should_continue(st) = "end" THEN "END"
          ELSE "RAISED")
    ELSE (IF ~Truthy(st.error) THEN "execute_query" ELSE "format_response")

\* variant: a specialized agent returns right after the execution
AfterExecute_noanalysis(st, agent) ==
  IF agent = "" THEN "analyze_results" ELSE "format_response"

\* where control goes when execute_query returns
AfterExecute(st, agent) ==
  IF agent = "" THEN "analyze_results"
  ELSE (IF ~Truthy(st.error) THEN "analyze_results" ELSE "format_response")

\* execute_query as the recursive function it is: frame k is given the k-th
\* outcome of the execution collaborator and, when that is a failure, the k-th
\* outcome of the text generation of the recovery
RECURSIVE execute_query(_, _, _, _, _, _, _)
execute_query(st, c, t, outs, llms, llm_service, k) ==
  IF Truthy(st.error) \/ AtRetryBound(st.retry_count) THEN st
  ELSE LET r == BqExecuteQuery(c, st.sql_query[1], Some(MAX_QUERY_ROWS), TRUE, t, outs[k])
           recovered == _recover_from_error(OnFailure(st, r.msg), r.msg, llm_service, llms[k])
       IN IF r.ok THEN OnSuccess(st, r.df)
          ELSE execute_query([recovered EXCEPT !.retry_count = NextRetryCount(st.retry_count)],
                             r.cache, t, outs, llms, llm_service, k + 1)

\* What follows the generation of the SQL, on the general workflow (agent = "",
\* the graph edges) and inside a specialized agent: validate_sql,
\* execute_query, analyze_results, create_visualization
RunTail(st, agent, c, t, outs, llms, insight, chart_ok) ==
  LET validated == validate_sql(st)
      pc1 == AfterValidate(validated, agent)
      executed == IF pc1 = "execute_query"
                    THEN execute_query(validated, c, t, outs, llms, TRUE, 1)
                    ELSE validated
      pc2 == IF pc1 = "execute_query" THEN AfterExecute(executed, agent) ELSE pc1
  IN IF pc2 = "analyze_results"
       THEN create_visualization(analyze_results(executed, TRUE, insight), chart_ok)
       ELSE executed

\* ------------------------------------------------------------------------
\* Actions: one per graph node (or per frame of the recursive execute_query)
\* ------------------------------------------------------------------------
UnderstandQuery ==
  /\ pc = "understand_query"
  /\ state' = understand_query(state)
  /\ pc' = IF use_specialized_agents
             THEN (IF route_to_agent(state') = "general" THEN "generate_sql" ELSE "agent")
             ELSE "generate_sql"
  /\ in_agent' = IF use_specialized_agents /\ route_to_agent(state') # "general"
                   THEN route_to_agent(state') ELSE ""
  /\ Ran("understand_query")
  /\ UNCHANGED <<use_specialized_agents, llm_available, cache, now, ticks, calls>>
  /\ UNCHANGED <<svcVars, tracks>>

\* generate_sql node of the general workflow
GenerateSql ==
  /\ pc = "generate_sql"
  /\ \E llm \in LlmOutcomes(SqlAnswers) :
       IF ~llm_available
         THEN /\ state' = [state EXCEPT !.error =
                   Some(<<"LLM service not available. Please set GOOGLE_API_KEY.">>)]
              /\ calls' = calls
         ELSE /\ state' = IF llm.ok
                            THEN [state EXCEPT !.sql_query = Some(CleanSql(llm.text))]
                            ELSE [state EXCEPT !.error =
                                    Some(<<"SQL generation failed", ": ">> \o llm.text)]
              /\ calls' = [calls EXCEPT !.llm = @ + 1]
  /\ pc' = "validate_sql"
  /\ last' = [op |-> "generate_sql", pre |-> state, calls |-> calls,
              outcome |-> IF ~llm_available THEN "llm_unavailable"
                          ELSE IF Truthy(state'.error) THEN "llm_failed" ELSE "ok"]
  /\ UNCHANGED <<use_specialized_agents, in_agent, llm_available, cache, now, ticks>>
  /\ UNCHANGED <<svcVars, tracks>>

AgentType(agent) ==
  CASE agent = "customer_segmentation" -> [type |-> "customer_analysis", complexity |-> "medium"]
    [] agent = "product_performance" -> [type |-> "product_analysis", complexity |-> "medium"]
    [] agent = "sales_trends" -> [type |-> "temporal", complexity |-> "complex"]
    [] agent = "geographic" -> [type |-> "geographic", complexity |-> "medium"]

\* first part of a specialized agent: override the classification and
\* generate the SQL; an exception of generate_text is not caught
AgentGenerate ==
  /\ pc = "agent"
  /\ \E llm \in LlmOutcomes(SqlAnswers) :
       LET st0 == IF state.query_metadata = None THEN understand_query(state) ELSE state
           st1 == [st0 EXCEPT !.query_metadata = Some(AgentType(in_agent))]
       IN IF ~llm_available
            THEN /\ state' = st1
                 /\ pc' = "validate_sql"
                 /\ calls' = calls
            ELSE /\ state' = IF llm.ok
                               THEN [st1 EXCEPT !.sql_query = Some(CleanSql(llm.text))]
                               ELSE st1
                 /\ pc' = IF llm.ok THEN "validate_sql" ELSE "RAISED"
                 /\ calls' = [calls EXCEPT !.llm = @ + 1]
  /\ last' = [op |-> "agent", pre |-> state, calls |-> calls,
              outcome |-> IF ~llm_available THEN "llm_unavailable"
                          ELSE IF pc' = "RAISED" THEN "llm_failed" ELSE "ok"]
  /\ UNCHANGED <<use_specialized_agents, in_agent, llm_available, cache, now, ticks>>
  /\ UNCHANGED <<svcVars, tracks>>

\* validate_sql; sql.upper() raises when sql_query is None
ValidateSql ==
  /\ pc = "validate_sql"
  /\ IF ~Truthy(state.error) /\ state.sql_query = None
       THEN /\ state' = state
            /\ pc' = "RAISED"
       ELSE /\ state' = validate_sql(state)
            /\ pc' = AfterValidate(state', in_agent)
  /\ Ran("validate_sql")
  /\ UNCHANGED <<use_specialized_agents, in_agent, llm_available, cache, now, ticks, calls>>
  /\ UNCHANGED <<svcVars, tracks>>

\* one frame of execute_query: the guards, one call of the BigQuery service
\* and, when it fails, the recovery; the recursive call is the next frame
ExecuteQuery ==
  /\ pc = "execute_query"
  /\ \E out \in ClientOutcomes, llm \in LlmOutcomes(RecoveryAnswers) :
       IF Truthy(state.error) \/ AtRetryBound(state.retry_count)
         THEN /\ state' = state
              /\ cache' = cache
              /\ calls' = calls
              /\ pc' = AfterExecute(state', in_agent)
              /\ RanFrame("skipped")
         ELSE LET r == BqExecuteQuery(cache, state.sql_query[1], Some(MAX_QUERY_ROWS),
                                      TRUE, now, out)
                  error_msg == r.msg
                  failed == OnFailure(state, error_msg)
                  recovered == _recover_from_error(failed, error_msg, llm_available, llm)
              IN /\ cache' = r.cache
                 /\ IF r.ok
                      THEN /\ state' = OnSuccess(state, r.df)
                           /\ calls' = [calls EXCEPT !.execute = @ + 1,
                                          !.client = @ + (IF r.called THEN 1 ELSE 0)]
                           /\ pc' = AfterExecute(state', in_agent)
                           /\ RanFrame(IF r.from_cache THEN "hit" ELSE "ok")
                      ELSE /\ state' = [recovered EXCEPT
                                          !.retry_count = NextRetryCount(state.retry_count)]
                           /\ calls' = [calls EXCEPT !.execute = @ + 1,
                                          !.client = @ + 1,
                                          !.client_failed = @ + 1,
                                          !.recover = @ + 1,
                                          !.gave_up = @ + (IF GaveUp(error_msg, llm_available, llm)
                                                             THEN 1 ELSE 0),
                                          !.llm = @ + (IF RecoveryCallsLlm(error_msg, llm_available)
                                                         THEN 1 ELSE 0),
                                          !.prompt = IF RecoveryCallsLlm(error_msg, llm_available)
                                                       THEN Some(get_error_recovery_prompt(
                                                              state.query, state.sql_query[1],
                                                              error_msg, schema_context))
                                                       ELSE @,
                                          !.answer = IF RecoveryCallsLlm(error_msg, llm_available)
                                                       THEN Some(llm) ELSE @,
                                          !.error_msg = Some(error_msg),
                                          !.failed_sql = @ \cup {state.sql_query[1]}]
                           /\ pc' = "execute_query"
                           /\ RanFrame("failed")
  /\ UNCHANGED <<use_specialized_agents, in_agent, llm_available, now, ticks>>
  /\ UNCHANGED <<svcVars, tracks>>

\* A frame of execute_query whose call of the execution collaborator has not
\* returned: client.query(query).result() is called without a timeout, so
\* the frame waits in it and has assigned nothing yet.  svc records the call
\* and the time it was made.
ExecuteQueryBlocks ==
  /\ pc = "execute_query"
  /\ ~Truthy(state.error)
  /\ ~AtRetryBound(state.retry_count)
  /\ LET looked == get_cached_result(cache, state.sql_query[1], Some(MAX_QUERY_ROWS), now)
     IN /\ looked.result = None
        /\ cache' = looked.cache
  /\ pc' = "in_client"
  /\ svc' = [NoCall EXCEPT !.op = "client",
                           !.query = QueryWithLimit(state.sql_query[1], Some(MAX_QUERY_ROWS)),
                           !.at = now, !.called = TRUE]
  /\ calls' = [calls EXCEPT !.execute = @ + 1, !.client = @ + 1]
  /\ RanFrame("blocked")
  /\ UNCHANGED <<state, use_specialized_agents, in_agent, llm_available, now, ticks>>
  /\ UNCHANGED <<done, ops, held, putlog, thr, stored, tracks>>

AnalyzeResults ==
  /\ pc = "analyze_results"
  /\ \E llm \in LlmOutcomes(InsightAnswers) :
       LET asked == ~Truthy(state.error) /\ state.query_result # None /\ llm_available
       IN /\ state' = analyze_results(state, llm_available, llm)
          /\ calls' = IF asked THEN [calls EXCEPT !.llm = @ + 1] ELSE calls
          /\ RanWith("analyze_results",
                     IF ~asked THEN "" ELSE IF llm.ok THEN "ok" ELSE "llm_failed")
  /\ pc' = "create_visualization"
  /\ UNCHANGED <<use_specialized_agents, in_agent, llm_available, cache, now, ticks>>
  /\ UNCHANGED <<svcVars, tracks>>

CreateVisualization ==
  /\ pc = "create_visualization"
  /\ \E chart_ok \in BOOLEAN :
       /\ state' = create_visualization(state, chart_ok)
       /\ RanWith("create_visualization", IF chart_ok THEN "" ELSE "chart_failed")
  /\ pc' = "format_response"
  /\ UNCHANGED <<use_specialized_agents, in_agent, llm_available, cache, now, ticks, calls>>
  /\ UNCHANGED <<svcVars, tracks>>

\* format_response only adds the formatted copy, which the model leaves out
FormatResponse ==
  /\ pc = "format_response"
  /\ state' = state
  /\ pc' = "END"
  /\ Ran("format_response")
  /\ UNCHANGED <<use_specialized_agents, in_agent, llm_available, cache, now, ticks, calls>>
  /\ UNCHANGED <<svcVars, tracks>>

TickSteps == {1, ttl_seconds}

\* the clock is read only inside execute_query, so it is enough to let it
\* advance right before a frame of execute_query and while a frame waits for
\* the execution collaborator
Tick ==
  /\ pc \in {"execute_query", "in_client"}
  /\ ticks < MaxTicks
  /\ \E d \in TickSteps : now' = now + d
  /\ ticks' = ticks + 1
  /\ UNCHANGED <<state, pc, use_specialized_agents, in_agent, llm_available, cache,
                 calls, last>>
  /\ UNCHANGED <<svcVars, tracks>>

Next ==
  \/ UnderstandQuery
  \/ GenerateSql
  \/ AgentGenerate
  \/ ValidateSql
  \/ ExecuteQuery
  \/ ExecuteQueryBlocks
  \/ AnalyzeResults
  \/ CreateVisualization
  \/ FormatResponse
  \/ Tick

Spec == Init /\ [][Next]_vars

\* ------------------------------------------------------------------------
\* The service and its cache called directly (as the tests do)
\* ------------------------------------------------------------------------
SvcQueries ==
  { <<"SELECT", " ", "x">>,
    <<"select", "  ", "x">>,
    <<"SELECT", " ", "x", " ", "LIMIT", " ", "1">> }

SvcLimits == {None, Some(MAX_QUERY_ROWS)}

\* the texts a direct caller of the cache stores results under and the texts
\* it looks up
PutQueries ==
  { <<"SELECT", " ", "x">>,
    <<"SELECT", " ", "x", " ", "LIMIT", " ", "1">> }

GetQueries ==
  { <<"SELECT", " ", "x">>,
    <<"select", "  ", "x">> }

\* what the client does in a direct call
SvcOutcomes ==
  { out \in ClientOutcomes :
      \/ out.ok /\ out.table = Table(3, 2)
      \/ ~out.ok /\ out.msg = <<"Syntax error">> }

SvcTables == { Table(1, 1) }

InitService ==
  /\ state = create_initial_state(<<>>)
  /\ pc = "idle"
  /\ use_specialized_agents = FALSE
  /\ in_agent = ""
  /\ llm_available = FALSE
  /\ cache = EmptyCache
  /\ now = 0
  /\ ticks = 0
  /\ calls = NoCalls
  /\ last = [op |-> "init", pre |-> state, calls |-> NoCalls, outcome |-> ""]
  /\ svc = NoCall
  /\ done = {}
  /\ ops = 0
  /\ held = {}
  /\ putlog = EmptyCache
  /\ thr = [t \in Threads |-> IdleThread]
  /\ stored = {}
  /\ tracks = NoTracks

\* BigQueryService.execute_query(query, limit_rows, use_cache)
ServiceExecute ==
  /\ pc = "idle"
  /\ ops < MaxExecutes
  /\ \E query \in SvcQueries, limit_rows \in SvcLimits, use_cache \in BOOLEAN,
        out \in SvcOutcomes :
       LET r == BqExecuteQuery(cache, query, limit_rows, use_cache, now, out)
       IN /\ cache' = r.cache
          /\ svc' = [op |-> "execute", query |-> query, limit_rows |-> limit_rows,
                     use_cache |-> use_cache, pre_cache |-> cache, pre_done |-> done,
                     at |-> now, ok |-> r.ok,
                     result |-> IF r.ok THEN Some(r.df) ELSE None, called |-> r.called]
          /\ done' = IF r.ok /\ enable_cache /\ use_cache
                       THEN done \cup {[query |-> query, limit_rows |-> limit_rows, at |-> now]}
                       ELSE done
  /\ ops' = ops + 1
  /\ UNCHANGED <<now, ticks, held, putlog>>
  /\ UNCHANGED concVars
  /\ UNCHANGED pipeVars

\* the caller's reference to the table a call handed out: a fresh copy
\* becomes the caller's object number h, anything else is the object it is
Handle(df, h) == IF df.obj = Fresh THEN [df EXCEPT !.obj = h] ELSE df

\* a held reference: the table, the cache slot whose stored object it is (if
\* it is one), where the caller got it from, whether the caller has changed it
Ref(df, slot, via, key) ==
  [df |-> df, slot |-> slot, via |-> via, key |-> key, mutated |-> FALSE]

\* the references to the object stored in a slot end when the slot is
\* overwritten or deleted
Detach(refs, keys) ==
  { IF r.slot # None /\ r.slot[1] \in keys THEN [r EXCEPT !.slot = None] ELSE r : r \in refs }

\* CacheService.get_cached_result(query, limit_rows=...)
CacheGet ==
  /\ pc = "idle"
  /\ ops < MaxOps
  /\ \E query \in GetQueries, limit_rows \in SvcLimits :
       LET g == get_cached_result(cache, query, limit_rows, now)
           key == _generate_cache_key(query, limit_rows)
           got == IF g.result = None THEN None ELSE Some(Handle(g.result[1], ops + 1))
       IN /\ cache' = g.cache
          /\ svc' = [op |-> "get", query |-> query, limit_rows |-> limit_rows,
                     use_cache |-> TRUE, pre_cache |-> cache, pre_done |-> done,
                     at |-> now, ok |-> TRUE, result |-> got, called |-> FALSE]
          /\ held' = Detach(held, (DOMAIN cache) \ (DOMAIN g.cache))
                       \cup (IF got = None THEN {}
                             ELSE {Ref(got[1],
                                       IF got[1].obj = CacheOwned THEN Some(key) ELSE None,
                                       "get", key)})
  /\ ops' = ops + 1
  /\ UNCHANGED <<now, ticks, done, putlog>>
  /\ UNCHANGED concVars
  /\ UNCHANGED pipeVars

\* CacheService.cache_result(query, result, limit_rows=...) with a table the
\* caller has just built
CachePut ==
  /\ pc = "idle"
  /\ ops < MaxOps
  /\ \E query \in PutQueries, limit_rows \in SvcLimits, t \in SvcTables :
       LET df == Handle(t, ops + 1)
           key == _generate_cache_key(query, limit_rows)
       IN /\ cache' = cache_result(cache, query, df, limit_rows, now)
          /\ svc' = [op |-> "put", query |-> query, limit_rows |-> limit_rows,
                     use_cache |-> TRUE, pre_cache |-> cache, pre_done |-> done,
                     at |-> now, ok |-> TRUE, result |-> Some(df), called |-> FALSE]
          /\ held' = Detach(held, {key}) \cup {Ref(df, None, "put", key)}
          /\ putlog' = CacheStore(putlog, key,
                                  [rows |-> df.rows, cols |-> df.cols, at |-> now])
  /\ ops' = ops + 1
  /\ UNCHANGED <<now, ticks, done>>
  /\ UNCHANGED concVars
  /\ UNCHANGED pipeVars

\* CacheService.get_cache_stats()
CacheStats ==
  /\ pc = "idle"
  /\ ops < MaxOps
  /\ cache # EmptyCache
  /\ svc' = [op |-> "stats", query |-> <<>>, limit_rows |-> None,
             use_cache |-> TRUE, pre_cache |-> cache, pre_done |-> done,
             at |-> now, ok |-> TRUE, result |-> Some(get_cache_stats(cache, now)),
             called |-> FALSE]
  /\ ops' = ops + 1
  /\ UNCHANGED <<cache, now, ticks, done, held, putlog>>
  /\ UNCHANGED concVars
  /\ UNCHANGED pipeVars

\* CacheService.cleanup_expired()
CacheCleanup ==
  /\ pc = "idle"
  /\ ops < MaxOps
  /\ cache # EmptyCache
  /\ LET r == cleanup_expired(cache, now)
     IN /\ cache' = r.cache
        /\ svc' = [op |-> "cleanup", query |-> <<>>, limit_rows |-> None,
                   use_cache |-> TRUE, pre_cache |-> cache, pre_done |-> done,
                   at |-> now, ok |-> TRUE, result |-> Some(r.expired_count),
                   called |-> FALSE]
        /\ held' = Detach(held, (DOMAIN cache) \ (DOMAIN r.cache))
  /\ ops' = ops + 1
  /\ UNCHANGED <<now, ticks, done, putlog>>
  /\ UNCHANGED concVars
  /\ UNCHANGED pipeVars

\* the object stored in slot k is one the caller holds a reference to
StoredIs(c, k, r) ==
  \/ r.df.obj >= 1 /\ c[k].result.obj = r.df.obj
  \/ r.slot = Some(k)

\* the caller changes in place (adds a row to) the tables it holds and has
\* not changed yet
Mutate ==
  /\ pc = "idle"
  /\ \E r \in held : ~r.mutated
  /\ held' = { IF r.mutated THEN r
               ELSE [r EXCEPT !.df.rows = @ + 1, !.mutated = TRUE] : r \in held }
  /\ cache' = [k \in DOMAIN cache |->
                 IF \E r \in held : ~r.mutated /\ StoredIs(cache, k, r)
                   THEN [cache[k] EXCEPT !.result.rows = @ + 1]
                   ELSE cache[k]]
  /\ UNCHANGED <<now, ticks, svc, done, ops, putlog>>
  /\ UNCHANGED concVars
  /\ UNCHANGED pipeVars

\* the clock is compared with the expires_at of stored entries only, so it
\* is enough to let it advance while the cache holds an entry
Advance ==
  /\ pc = "idle"
  /\ ticks < MaxTicks
  /\ cache # EmptyCache
  /\ \E d \in TickSteps : now' = now + d
  /\ ticks' = ticks + 1
  /\ UNCHANGED <<cache, svc, done, ops, held, putlog>>
  /\ UNCHANGED concVars
  /\ UNCHANGED pipeVars

\* the BigQuery service called directly
NextService ==
  \/ ServiceExecute
  \/ Advance

SpecService == InitService /\ [][NextService]_vars

\* the cache service called directly
NextCache ==
  \/ CacheGet
  \/ CachePut
  \/ CacheStats
  \/ CacheCleanup
  \/ Mutate
  \/ Advance

SpecCache == InitService /\ [][NextCache]_vars

\* ------------------------------------------------------------------------
\* validate_sql called directly on a state that carries a SQL text (as the
\* unit tests do)
\* ------------------------------------------------------------------------
ValWords ==
  {"SELECT", "select", "SELECTED", "DROP", "drop", "Drop", "UPDATE", "DATEDIFF", "x",
   "bigquery-public-data.thelook_ecommerce.orders"}

\* two words, the second one alone or as the head of a longer identifier
ValTexts ==
  { <<a, " ", b>> : a, b \in ValWords } \cup
  { <<a, " ", b, "_count">> : a, b \in ValWords }

PriorErrors == {None, Some(<<"SQL generation failed", ": ", "timeout">>)}

InitValidator ==
  /\ \E sql \in ValTexts, e \in PriorErrors :
       state = [create_initial_state(<<"Query">>) EXCEPT !.sql_query = Some(sql),
                                                           !.error = e]
  /\ pc = "validate_sql"
  /\ use_specialized_agents = FALSE
  /\ in_agent = ""
  /\ llm_available = FALSE
  /\ cache = EmptyCache
  /\ now = 0
  /\ ticks = 0
  /\ calls = NoCalls
  /\ last = [op |-> "init", pre |-> state, calls |-> NoCalls, outcome |-> ""]
  /\ svc = NoCall
  /\ done = {}
  /\ ops = 0
  /\ held = {}
  /\ putlog = EmptyCache
  /\ thr = [t \in Threads |-> IdleThread]
  /\ stored = {}
  /\ tracks = NoTracks

NextValidator ==
  \/ ValidateSql

SpecValidator == InitValidator /\ [][NextValidator]_vars

\* ------------------------------------------------------------------------
\* route_to_agent called directly, twice, on a state that may carry a
\* classification (as the unit tests do)
\* ------------------------------------------------------------------------
RouteWords ==
  {"state", "location", "customer", "average", "product", "revenue", "trend", "orders"}

RouteTexts == { <<a, " ", b>> : a, b \in RouteWords }

RouteTypes ==
  {"count", "ranking", "aggregation", "temporal", "customer_analysis",
   "product_analysis", "sales_analysis", "geographic", "general"}

InitRouter ==
  /\ \E q \in RouteTexts :
       \E m \in {None} \cup { Some([type |-> ty, complexity |-> "medium"]) : ty \in RouteTypes } :
         state = [create_initial_state(q) EXCEPT !.query_metadata = m]
  /\ pc = "route"
  /\ use_specialized_agents = TRUE
  /\ in_agent = ""
  /\ llm_available = FALSE
  /\ cache = EmptyCache
  /\ now = 0
  /\ ticks = 0
  /\ calls = NoCalls
  /\ last = [op |-> "init", pre |-> state, calls |-> NoCalls, outcome |-> ""]
  /\ svc = NoCall
  /\ done = {}
  /\ ops = 0
  /\ held = {}
  /\ putlog = EmptyCache
  /\ thr = [t \in Threads |-> IdleThread]
  /\ stored = {}
  /\ tracks = NoTracks

\* one call of route_to_agent(state); in_agent holds the track it returned,
\* last.outcome the track the call before returned
RouteToAgent ==
  /\ pc \in {"route", "routed"}
  /\ in_agent' = route_to_agent(state)
  /\ state' = RoutedState(state)
  /\ pc' = IF pc = "route" THEN "routed" ELSE "routed_again"
  /\ RanWith("route_to_agent", in_agent)
  /\ UNCHANGED <<use_specialized_agents, llm_available, cache, now, ticks, calls>>
  /\ UNCHANGED <<svcVars, tracks>>

NextRouter ==
  \/ RouteToAgent

SpecRouter == InitRouter /\ [][NextRouter]_vars

\* ------------------------------------------------------------------------
\* The one CacheService called from several threads.  The methods take no
\* lock, so another thread can run between any two statements that touch the
\* dictionary; one dictionary operation is one step.
\* ------------------------------------------------------------------------
ConcQueries == { <<"SELECT", " ", "x">> }

ConcOps == {"get", "put", "clear", "cleanup"}

ThreadKey(t) == _generate_cache_key(thr[t].query, thr[t].limit_rows)

\* the call returns to its caller
Return(t, result) == [thr[t] EXCEPT !.pc = "idle", !.result = result]

\* the call ends with the exception
Raise(t, exc) == [thr[t] EXCEPT !.pc = "raised", !.failed = exc]

OtherVarsUnchanged ==
  /\ UNCHANGED <<now, ticks, svc, done, held, putlog>>
  /\ UNCHANGED pipeVars

\* a thread enters get_cached_result, cache_result, clear_cache or
\* cleanup_expired
StartCall ==
  /\ pc = "idle"
  /\ ops < MaxOps
  /\ \E t \in Threads, op \in ConcOps, query \in ConcQueries, limit_rows \in SvcLimits,
        df \in SvcTables :
       /\ thr[t].pc = "idle"
       /\ thr' = [thr EXCEPT ![t] =
                    [IdleThread EXCEPT !.pc = op, !.op = op,
                       !.query = IF op \in {"get", "put"} THEN query ELSE <<>>,
                       !.limit_rows = IF op \in {"get", "put"} THEN limit_rows ELSE None,
                       !.df = IF op = "put" THEN Some(df) ELSE None]]
  /\ ops' = ops + 1
  /\ UNCHANGED <<cache, stored>>
  /\ OtherVarsUnchanged

\* get_cached_result, statement by statement
GetStep ==
  /\ \E t \in Threads :
       LET key == ThreadKey(t)
       IN \/ /\ thr[t].pc = "get"          \* if cache_key not in self._query_cache
             /\ thr' = [thr EXCEPT ![t] =
                          IF key \notin DOMAIN cache THEN Return(t, None)
                          ELSE [thr[t] EXCEPT !.pc = "get_item"]]
             /\ cache' = cache
          \/ /\ thr[t].pc = "get_item"     \* cached_item = self._query_cache[cache_key]
             /\ thr' = [thr EXCEPT ![t] =
                          IF key \notin DOMAIN cache THEN Raise(t, "KeyError")
                          ELSE [thr[t] EXCEPT !.pc = "get_check",
                                              !.item = Some(cache[key])]]
             /\ cache' = cache
          \/ /\ thr[t].pc = "get_check"    \* now = ...; if now > expires_at
             /\ thr' = [thr EXCEPT ![t] =
                          IF IsExpiredForGet(thr[t].item[1], now)
                            THEN [thr[t] EXCEPT !.pc = "get_del"]
                            ELSE Return(t, Some(Copy(thr[t].item[1].result, Fresh)))]
             /\ cache' = cache
          \/ /\ thr[t].pc = "get_del"      \* del self._query_cache[cache_key]
             /\ thr' = [thr EXCEPT ![t] =
                          IF key \notin DOMAIN cache THEN Raise(t, "KeyError")
                          ELSE Return(t, None)]
             /\ cache' = IF key \in DOMAIN cache THEN CacheRemove(cache, key) ELSE cache
  /\ UNCHANGED <<ops, stored>>
  /\ OtherVarsUnchanged

\* cache_result: the entry is built first, the assignment is one step
PutStep ==
  /\ \E t \in Threads :
       /\ thr[t].pc = "put"
       /\ cache' = cache_result(cache, thr[t].query, thr[t].df[1], thr[t].limit_rows, now)
       /\ stored' = stored \cup {[key |-> ThreadKey(t), item |-> cache'[ThreadKey(t)]]}
       /\ thr' = [thr EXCEPT ![t] = Return(t, None)]
  /\ UNCHANGED ops
  /\ OtherVarsUnchanged

\* clear_cache
ClearStep ==
  /\ \E t \in Threads :
       /\ thr[t].pc = "clear"
       /\ cache' = EmptyCache
       /\ thr' = [thr EXCEPT ![t] = Return(t, None)]
  /\ UNCHANGED <<ops, stored>>
  /\ OtherVarsUnchanged

\* cleanup_expired: read the clock, walk the dictionary (the iterator raises
\* RuntimeError when the dictionary changed size since the walk began), then
\* delete the keys found expired one by one
CleanupStep ==
  /\ \E t \in Threads :
       \/ /\ thr[t].pc = "cleanup"
          /\ thr' = [thr EXCEPT ![t] =
                       [thr[t] EXCEPT !.pc = "cleanup_iter", !.at = now,
                                      !.todo = DOMAIN cache,
                                      !.size = Cardinality(DOMAIN cache)]]
          /\ cache' = cache
       \/ /\ thr[t].pc = "cleanup_iter"
          /\ \/ /\ Cardinality(DOMAIN cache) # thr[t].size
                /\ thr' = [thr EXCEPT ![t] = Raise(t, "RuntimeError")]
             \/ /\ Cardinality(DOMAIN cache) = thr[t].size
                /\ thr[t].todo \cap DOMAIN cache = {}
                /\ thr' = [thr EXCEPT ![t] = [thr[t] EXCEPT !.pc = "cleanup_del"]]
             \/ /\ Cardinality(DOMAIN cache) = thr[t].size
                /\ \E k \in thr[t].todo \cap DOMAIN cache :
                     thr' = [thr EXCEPT ![t] =
                               [thr[t] EXCEPT
                                  !.todo = @ \ {k},
                                  !.expired_keys =
                                     IF cache[k].expires_at <= thr[t].at
                                       THEN @ \cup {k} ELSE @]]
          /\ cache' = cache
       \/ /\ thr[t].pc = "cleanup_del"
          /\ \/ /\ thr[t].expired_keys = {}
                /\ thr' = [thr EXCEPT ![t] = Return(t, None)]
                /\ cache' = cache
             \/ \E k \in thr[t].expired_keys :
                  IF k \in DOMAIN cache
                    THEN /\ cache' = CacheRemove(cache, k)
                         /\ thr' = [thr EXCEPT ![t] =
                                      [thr[t] EXCEPT !.expired_keys = @ \ {k}]]
                    ELSE /\ cache' = cache
                         /\ thr' = [thr EXCEPT ![t] = Raise(t, "KeyError")]
  /\ UNCHANGED <<ops, stored>>
  /\ OtherVarsUnchanged

NextConcurrent ==
  \/ StartCall
  \/ GetStep
  \/ PutStep
  \/ ClearStep
  \/ CleanupStep
  \/ Advance

SpecConcurrent == InitService /\ [][NextConcurrent]_vars

\* ------------------------------------------------------------------------
\* One generated SQL taken through both workflows with the same collaborator
\* outcomes
\* ------------------------------------------------------------------------
\* the requests the router sends to a specialized agent
TrackQueries ==
  { q \in Queries : route_to_agent(understand_query(create_initial_state(q))) # "general" }

InitTracks ==
  /\ \E q \in TrackQueries : state = create_initial_state(q)
  /\ pc = "tracks"
  /\ use_specialized_agents = TRUE
  /\ in_agent = ""
  /\ llm_available = TRUE
  /\ cache \in WarmCaches
  /\ now = 0
  /\ ticks = 0
  /\ calls = NoCalls
  /\ last = [op |-> "init", pre |-> state, calls |-> NoCalls, outcome |-> ""]
  /\ svc = NoCall
  /\ done = {}
  /\ ops = 0
  /\ held = {}
  /\ putlog = EmptyCache
  /\ thr = [t \in Threads |-> IdleThread]
  /\ stored = {}
  /\ \E a \in SqlAnswers,
        outs \in [1..max_retries -> ClientOutcomes],
        llms \in [1..max_retries -> LlmOutcomes(RecoveryAnswers)],
        insight \in LlmOutcomes(InsightAnswers),
        chart_ok \in BOOLEAN :
       tracks = [agent |-> route_to_agent(understand_query(state)), sql |-> a,
                 outs |-> outs, llms |-> llms, insight |-> Some(insight),
                 chart_ok |-> chart_ok, general |-> None, specialized |-> None]

\* run_agent(query, False) and run_agent(query, True) from the point where
\* the text generation has answered the SQL prompt
RunTracks ==
  /\ pc = "tracks"
  /\ LET understood == understand_query(state)
         sql == Some(CleanSql(tracks.sql))
         general == [understood EXCEPT !.sql_query = sql]
         specialized == [understood EXCEPT !.query_metadata = Some(AgentType(tracks.agent)),
                                           !.sql_query = sql]
     IN tracks' = [tracks EXCEPT
                     !.general = Some(RunTail(general, "", cache, now, tracks.outs,
                                              tracks.llms, tracks.insight[1], tracks.chart_ok)),
                     !.specialized = Some(RunTail(specialized, tracks.agent, cache, now,
                                                  tracks.outs, tracks.llms, tracks.insight[1],
                                                  tracks.chart_ok))]
  /\ pc' = "tracks_done"
  /\ RanWith("run_agent", "")
  /\ UNCHANGED <<state, use_specialized_agents, in_agent, llm_available, cache, now, ticks,
                 calls>>
  /\ UNCHANGED svcVars

NextTracks ==
  \/ RunTracks

SpecTracks == InitTracks /\ [][NextTracks]_vars

\* ========================================================================
\* Properties
\* ========================================================================
Returned == pc = "END"

\* every call of the execution collaborator made in this run failed
AllExecutionsFailed == calls.client >= 1 /\ calls.client_failed = calls.client

\* every execution attempt of this run (cache look-ups included) failed
AllAttemptsFailed == calls.execute >= 1 /\ calls.client_failed = calls.execute

IsValidationError(e) ==
  Truthy(e) /\ e[1][1] \in {"Query contains forbidden operation",
                            "Query must be a SELECT statement"}

ShortCircuitStages ==
  {"validate_sql", "execute_query", "analyze_results", "create_visualization"}

\* C1: when every call of the execution collaborator fails, the state that
\* run returns has error populated and no query_result, whatever SQL the
\* recovery produced.
C1_AllFailedEndsFailed ==
  (Returned /\ AllExecutionsFailed)
    => (Truthy(state.error) /\ state.query_result = None)

\* C2: a run invokes the recovery at most max_retries (2) times; exactly that
\* often when every execution attempt fails and no recovery gives up; and a
\* failed execution that triggers recovery adds exactly one to retry_count.
C2_RecoveryBound ==
  /\ calls.recover <= 2
  /\ (Returned /\ AllAttemptsFailed /\ calls.gave_up = 0) => calls.recover = 2
  /\ (last.op = "execute_query" /\ last.outcome = "failed")
       => /\ state.retry_count = last.pre.retry_count + 1
          /\ calls.recover = last.calls.recover + 1

C2_Witness ==
  /\ Returned
  /\ AllAttemptsFailed
  /\ calls.gave_up = 0
  /\ calls.recover = 2
  /\ state.retry_count = 2

\* C3: retry_count stays within 0..max_retries, and a frame of execute_query
\* entered with retry_count at the bound calls nothing and returns the state
\* it was given.
C3_RetryCountBounded ==
  /\ state.retry_count \in 0..2
  /\ (last.op = "execute_query" /\ last.pre.retry_count >= 2)
       => /\ state = last.pre
          /\ calls = last.calls
          /\ last.outcome = "skipped"

C3_Witness ==
  /\ last.op = "execute_query"
  /\ last.pre.retry_count = 2
  /\ ~Truthy(last.pre.error)
  /\ state = last.pre

\* C4: a stage (validate, execute, analyze, visualize) that is given a state
\* with error set leaves sql_query, query_result, insights and
\* visualization_spec as they are and calls no collaborator.
C4_ShortCircuit ==
  (last.op \in ShortCircuitStages /\ Truthy(last.pre.error))
    => /\ state.sql_query = last.pre.sql_query
       /\ state.query_result = last.pre.query_result
       /\ state.insights = last.pre.insights
       /\ state.visualization_spec = last.pre.visualization_spec
       /\ calls = last.calls

C4_Witness ==
  /\ last.op = "create_visualization"
  /\ Truthy(last.pre.error)
  /\ last.pre.query_result # None
  /\ last.pre.query_result[1].cols = 2
  /\ state.visualization_spec = None

\* C5: when validate_sql rejects the generated SQL the run goes straight to its
\* end with the validation error, on the general and on the specialized
\* track: no execution, no recovery, retry_count 0.
C5_RejectionEndsRun ==
  /\ (/\ last.op = "validate_sql"
      /\ ~Truthy(last.pre.error)
      /\ last.pre.sql_query # None
      /\ ValidationError(last.pre.sql_query[1]) # None)
       => /\ state.error = ValidationError(last.pre.sql_query[1])
          /\ pc = IF in_agent = "" THEN "END" ELSE "format_response"
  /\ IsValidationError(state.error)
       => /\ pc \in {"END", "format_response"}
          /\ calls.execute = 0
          /\ calls.client = 0
          /\ calls.recover = 0
          /\ state.retry_count = 0
          /\ state.query_result = None

C5_Witness ==
  /\ Returned
  /\ in_agent # ""
  /\ IsValidationError(state.error)
  /\ calls.execute = 0

\* C6: when the text generation fails in analyze_results after a successful
\* execution, error stays absent, insights stays absent and the result is
\* kept.
C6_InsightFailureIsLocal ==
  (last.op = "analyze_results" /\ last.outcome = "llm_failed")
    => /\ ~Truthy(state.error)
       /\ state.insights = None
       /\ state.query_result = last.pre.query_result

\* C7: when the text generation is unavailable or fails while the SQL is
\* generated, on any track, no exception escapes and the state carries a
\* generation error.
C7_GenerationFailureEndsFailed ==
  /\ (last.op \in {"generate_sql", "agent"}
        /\ last.outcome \in {"llm_failed", "llm_unavailable"})
       => (pc # "RAISED" /\ Truthy(state.error))
  /\ (last.op = "validate_sql" /\ last.pre.sql_query = None)
       => (pc # "RAISED" /\ Truthy(state.error))

\* C8: right after a frame of execute_query whose execution succeeded (first
\* attempt, after a recovery, or from the cache) query_result is populated,
\* error is absent and retry_count is 0.
C8_SuccessResets ==
  (last.op = "execute_query" /\ last.outcome \in {"ok", "hit"})
    => /\ state.query_result # None
       /\ ~Truthy(state.error)
       /\ state.retry_count = 0

C8_Witness ==
  /\ last.op = "execute_query"
  /\ last.outcome = "ok"
  /\ last.pre.retry_count = 1
  /\ state.retry_count = 0
  /\ state.query_result # None

\* C9: a cached execute that follows a successful cached execute of the same
\* text with the same row limit before the TTL has elapsed does not call the
\* execution collaborator.
C9_SecondExecuteFromCache ==
  (/\ svc.op = "execute"
   /\ svc.use_cache
   /\ \E h \in svc.pre_done :
        /\ h.query = svc.query
        /\ h.limit_rows = svc.limit_rows
        /\ svc.at < h.at + ttl_seconds)
    => (svc.ok /\ ~svc.called)

\* C10: a lookup made after the entry's expires_at returns None and removes
\* that entry and no other.
C10_ExpiredNeverReturned ==
  LET key == _generate_cache_key(svc.query, svc.limit_rows)
  IN (/\ svc.op = "get"
      /\ key \in DOMAIN svc.pre_cache
      /\ svc.at > svc.pre_cache[key].expires_at)
       => /\ svc.result = None
          /\ DOMAIN cache = (DOMAIN svc.pre_cache) \ {key}
          /\ \A k \in DOMAIN cache : cache[k] = svc.pre_cache[k]

C10_Witness ==
  LET key == _generate_cache_key(svc.query, svc.limit_rows)
  IN /\ svc.op = "get"
     /\ key \in DOMAIN svc.pre_cache
     /\ svc.at > svc.pre_cache[key].expires_at
     /\ svc.result = None
     /\ key \notin DOMAIN cache
     /\ DOMAIN cache # {}

\* C11: a lookup made before the expiry of the entry that the last
\* cache_result stored under its key returns a table with the value the
\* stored table had when it was handed over, whatever the caller has done
\* since to that table or to tables earlier lookups returned.
C11_RoundTripCopyIsolation ==
  LET key == _generate_cache_key(svc.query, svc.limit_rows)
  IN (/\ svc.op = "get"
      /\ key \in DOMAIN putlog
      /\ svc.at < putlog[key].at + ttl_seconds)
       => /\ svc.result # None
          /\ svc.result[1].rows = putlog[key].rows
          /\ svc.result[1].cols = putlog[key].cols

\* a lookup returned the stored value although the caller had changed both
\* the table it stored and the table an earlier lookup returned
C11_Witness ==
  LET key == _generate_cache_key(svc.query, svc.limit_rows)
  IN /\ svc.op = "get"
     /\ key \in DOMAIN putlog
     /\ svc.result # None
     /\ svc.result[1].rows = putlog[key].rows
     /\ \E r \in held : r.via = "put" /\ r.key = key /\ r.mutated
     /\ \E r \in held : r.via = "get" /\ r.key = key /\ r.mutated

\* the two texts differ at most in the case of their letters and in what
\* their whitespace runs consist of
SameUpToCaseAndSpace(a, b) ==
  /\ Len(a) = Len(b)
  /\ \A i \in 1..Len(a) :
       \/ a[i] \in SpaceAtoms /\ b[i] \in SpaceAtoms
       \/ a[i] \notin SpaceAtoms /\ b[i] \notin SpaceAtoms /\ Lower(a[i]) = Lower(b[i])

\* the words and marks of a text, letter case folded
FoldWords(t) ==
  LET w == SelectSeq(t, LAMBDA a : a \notin SpaceAtoms)
  IN [i \in 1..Len(w) |-> Lower(w[i])]

\* C12: a call of the cache with a text and a row limit addresses the slot of
\* an entry stored with a text that differs only in letter case or whitespace
\* runs and with the same row limit (so an unexpired entry is found), and
\* never the slot of an entry stored with another row limit or other words.
C12_KeyDerivation ==
  svc.op \in {"get", "put"} =>
    \A k \in DOMAIN svc.pre_cache :
      LET e == svc.pre_cache[k]
          mine == _generate_cache_key(svc.query, svc.limit_rows)
      IN /\ (SameUpToCaseAndSpace(svc.query, e.query) /\ svc.limit_rows = k.limit_rows)
              => /\ mine = k
                 /\ (svc.op = "get" /\ svc.at <= e.expires_at) => svc.result # None
         /\ (svc.limit_rows # k.limit_rows \/ FoldWords(svc.query) # FoldWords(e.query))
              => mine # k

\* a lookup hit an entry stored under a text in another letter case and with
\* other whitespace, while entries with another limit and another text exist
C12_Witness ==
  /\ svc.op = "get"
  /\ svc.result # None
  /\ \E k \in DOMAIN svc.pre_cache :
       /\ k = _generate_cache_key(svc.query, svc.limit_rows)
       /\ svc.pre_cache[k].query # svc.query
  /\ \E k \in DOMAIN svc.pre_cache :
       /\ k # _generate_cache_key(svc.query, svc.limit_rows)
       /\ \/ k.limit_rows # svc.limit_rows
          \/ FoldWords(svc.pre_cache[k].query) # FoldWords(svc.query)

\* C13: under every interleaving of the statements of get_cached_result,
\* cache_result, clear_cache and cleanup_expired run by several threads on
\* the one cache, no call ends with an exception and a lookup returns None or
\* the table of an entry that a cache_result stored under its key.
C13_ConcurrentCallsSucceed ==
  \A t \in Threads :
    /\ thr[t].failed = ""
    /\ (thr[t].op = "get" /\ thr[t].pc = "idle" /\ thr[t].result # None)
         => \E p \in stored :
              /\ p.key = ThreadKey(t)
              /\ p.item.result.rows = thr[t].result[1].rows
              /\ p.item.result.cols = thr[t].result[1].cols

\* the state validate_sql has just returned for a text it looked at
Validated == last.op = "validate_sql" /\ ~Truthy(last.pre.error) /\ last.pre.sql_query # None

ValidatedSql == last.pre.sql_query[1]

\* the spellings of a keyword in any letter case
AnyCase(keyword) == { a \in ValWords : Upper(a) = keyword }

Forbidden == { forbidden_keywords[i] : i \in 1..Len(forbidden_keywords) }

\* a forbidden keyword stands in the text as a whole word, in any letter case
ForbiddenWordAnyCase(sql) == \E kw \in Forbidden : HasWord(sql, AnyCase(kw))

\* a forbidden keyword is the head of a longer identifier
ForbiddenInsideIdentifier(sql) ==
  \E kw \in Forbidden, i \in 1..Len(sql) :
    sql[i] \in AnyCase(kw) /\ ~WordAt(sql, i, AnyCase(kw))

\* SELECT stands in the text as a whole word
SelectToken(sql) == HasWord(sql, {"SELECT"})

SelectTokenAnyCase(sql) == HasWord(sql, AnyCase("SELECT"))

IsForbiddenVerdict(e) ==
  Truthy(e) /\ e[1][1] = "Query contains forbidden operation"

\* C14: a text in which a forbidden keyword occurs as a whole word, in any
\* letter case and at any place, is rejected with the forbidden-operation
\* error.
C14_ForbiddenAnyCaseRejected ==
  (Validated /\ ForbiddenWordAnyCase(ValidatedSql)) => IsForbiddenVerdict(state.error)

\* C15: a text with a SELECT token whose only occurrences of forbidden
\* keywords are parts of longer identifiers is not rejected.
C15_IdentifierNotRejected ==
  (/\ Validated
   /\ SelectToken(ValidatedSql)
   /\ ForbiddenInsideIdentifier(ValidatedSql)
   /\ ~ForbiddenWordAnyCase(ValidatedSql))
    => state.error = None

C15_Witness ==
  /\ Validated
  /\ ValidatedSql = <<"SELECT", " ", "UPDATE", "_count">>
  /\ state.error = None
  /\ pc = "execute_query"

\* C16: a text without a SELECT token (the letters at most inside a longer
\* word) is rejected.
C16_NoSelectRejected ==
  (Validated /\ ~SelectTokenAnyCase(ValidatedSql)) => Truthy(state.error)

Routed == last.op = "route_to_agent"

\* the classification the router was given, "" when there was none
GivenType ==
  IF last.pre.query_metadata = None THEN "" ELSE last.pre.query_metadata[1].type

SpecializedTypes == {"customer_analysis", "product_analysis", "temporal", "sales_analysis"}

TrackOfType(ty) ==
  CASE ty = "customer_analysis" -> "customer_segmentation"
    [] ty = "product_analysis" -> "product_performance"
    [] ty \in {"temporal", "sales_analysis"} -> "sales_trends"

\* a keyword of the set occurs in the request text
Occurs(kws) == AnyIn(kws, last.pre.query)

\* C18: without a specialized classification the track is geographic when a
\* geographic keyword occurs, else customer when a customer keyword occurs,
\* else product, else sales/temporal, else general.
C18_RouterPrecedence ==
  (Routed /\ GivenType \notin SpecializedTypes) =>
    /\ Occurs(geo_keywords) => in_agent = "geographic"
    /\ (~Occurs(geo_keywords) /\ Occurs(customer_keywords))
         => in_agent = "customer_segmentation"
    /\ (~Occurs(geo_keywords \cup customer_keywords) /\ Occurs(product_keywords))
         => in_agent = "product_performance"
    /\ (~Occurs(geo_keywords \cup customer_keywords \cup product_keywords)
          /\ Occurs(temporal_keywords \cup sales_keywords))
         => in_agent = "sales_trends"
    /\ ~Occurs(geo_keywords \cup customer_keywords \cup product_keywords
                 \cup temporal_keywords \cup sales_keywords)
         => in_agent = "general"

\* a text with a customer and a geographic keyword went to the geographic track
C18_Witness ==
  /\ Routed
  /\ GivenType = ""
  /\ Occurs(geo_keywords)
  /\ Occurs(customer_keywords)
  /\ in_agent = "geographic"

\* C19 as stated: a specialized classification decides the track whatever
\* keywords the text contains.
C19_ClassificationOverrides ==
  (Routed /\ GivenType \in SpecializedTypes) => in_agent = TrackOfType(GivenType)

\* C19 amended: a specialized classification decides the track when no
\* keyword of a set that is looked at earlier occurs in the text.
C19_ClassificationIsFallback ==
  Routed =>
    /\ (GivenType = "customer_analysis" /\ ~Occurs(geo_keywords))
         => in_agent = "customer_segmentation"
    /\ (GivenType = "product_analysis" /\ ~Occurs(geo_keywords \cup customer_keywords))
         => in_agent = "product_performance"
    /\ (GivenType \in {"temporal", "sales_analysis"}
          /\ ~Occurs(geo_keywords \cup customer_keywords \cup product_keywords))
         => in_agent = "sales_trends"

\* a text without any keyword went to the track of its classification
C19_Witness ==
  /\ Routed
  /\ GivenType = "product_analysis"
  /\ ~Occurs(geo_keywords \cup customer_keywords \cup product_keywords
               \cup temporal_keywords \cup sales_keywords)
  /\ in_agent = "product_performance"

LastExecutionError ==
  Some(<<"Query execution failed", ": ">>
         \o state.previous_errors[1][Len(state.previous_errors[1])])

\* C21: when the text-generation call of the recovery fails, the recovery
\* leaves sql_query as the failed SQL and error as the execution error; every
\* later frame of execute_query attempts nothing; and the run returns with
\* that execution error and no result.
C21_RecoveryGivesUp ==
  /\ (last.op = "execute_query" /\ calls.gave_up > last.calls.gave_up)
       => /\ state.sql_query = last.pre.sql_query
          /\ state.error = LastExecutionError
  /\ (last.op = "execute_query" /\ last.calls.gave_up >= 1)
       => /\ last.outcome = "skipped"
          /\ calls = last.calls
          /\ state = last.pre
  /\ calls.gave_up >= 1
       => /\ state.error = LastExecutionError
          /\ state.query_result = None
          /\ pc # "RAISED"

C21_Witness ==
  /\ Returned
  /\ calls.gave_up = 1
  /\ calls.execute = 2
  /\ state.retry_count = 2
  /\ state.error = LastExecutionError

\* the last frame of execute_query called the execution collaborator, the call
\* failed and the recovery ran
RecoveryRan == last.op = "execute_query" /\ last.outcome = "failed"

\* the message the recovery was given
RecoveryErrorMsg == state.previous_errors[1][Len(state.previous_errors[1])]

\* the SQL the recovery was given
RecoveryFailedSql == last.pre.sql_query[1]

\* C22: when the failed SQL or the error message names DATEDIFF, the recovery
\* leaves in the state the failed SQL with every whole-word DATEDIFF (any
\* case) rewritten to DATE_DIFF and makes no text-generation call.
C22_PatternRuleNoDelegation ==
  (RecoveryRan /\ MentionsDatediff(RecoveryErrorMsg, RecoveryFailedSql))
    => /\ state.sql_query = Some(SubDatediff(RecoveryFailedSql))
       /\ calls.llm = last.calls.llm

\* C23: when neither the failed SQL nor the error message names DATEDIFF and
\* the text-generation service exists, the recovery makes exactly one
\* text-generation call, with a prompt built from the request, the failed SQL,
\* the error message and the schema context, and when that call returns the
\* SQL in the state is its answer without the code fence.
C23_FallbackDelegates ==
  (RecoveryRan /\ llm_available
     /\ ~MentionsDatediff(RecoveryErrorMsg, RecoveryFailedSql))
    => /\ calls.llm = last.calls.llm + 1
       /\ calls.prompt = Some(get_error_recovery_prompt(
                                 last.pre.query, RecoveryFailedSql,
                                 RecoveryErrorMsg, schema_context))
       /\ calls.answer # None
       /\ calls.answer[1].ok
            => /\ state.sql_query = Some(CleanSql(calls.answer[1].text))
               /\ ~HasAtom(state.sql_query[1], {"[fence]"})

\* C24: a call of the execution collaborator that has not returned within
\* QUERY_TIMEOUT seconds is abandoned (and handled as a failed execution, so
\* that the run goes on to its end): the run is never found waiting in a
\* call that was made more than QUERY_TIMEOUT seconds ago.
C24_BlockedCallAbandoned ==
  pc = "in_client" => now - svc.at <= QUERY_TIMEOUT

\* analyze_results failed after the execution
InsightFailed ==
  Truthy(state.error) /\ state.error[1][1] = "Insight generation failed"

\* Scenario C: the run has returned after two execution attempts; the first
\* failed with a message naming DATEDIFF, the recovery made no text-generation
\* call, the second attempt did not fail, and the insight stage did not fail.
ScenarioC ==
  /\ Returned
  /\ calls.execute = 2
  /\ calls.client_failed = 1
  /\ calls.recover = 1
  /\ calls.prompt = None
  /\ state.previous_errors # None
  /\ HasAtom(UpperText(state.previous_errors[1][1]), {"DATEDIFF"})
  /\ ~InsightFailed

VisualizationRan ==
  /\ last.op = "create_visualization"
  /\ ~Truthy(last.pre.error)
  /\ last.pre.query_result # None

\* C26: create_visualization never changes error, query_result or insights,
\* and when the chart builder fails, the result is empty or the result has a
\* single column, visualization_spec is absent afterwards.
C26_VisualizationNeverFails ==
  /\ last.op = "create_visualization"
       => /\ state.error = last.pre.error
          /\ state.query_result = last.pre.query_result
          /\ state.insights = last.pre.insights
          /\ pc = "format_response"
  /\ (/\ VisualizationRan
      /\ \/ last.outcome = "chart_failed"
         \/ last.pre.query_result[1].rows = 0
         \/ last.pre.query_result[1].cols = 1)
       => state.visualization_spec = None

\* the stage ran on a single-column result with rows and built nothing
C26_Witness ==
  /\ VisualizationRan
  /\ last.outcome = ""
  /\ last.pre.query_result[1].rows > 0
  /\ last.pre.query_result[1].cols = 1
  /\ state.visualization_spec = None
  /\ ~Truthy(state.error)

\* the stage whose failure the error reports
FailedStage ==
  IF ~Truthy(state.error) THEN "none"
  ELSE IF state.error[1][1] \in {"SQL generation failed",
                                 "LLM service not available. Please set GOOGLE_API_KEY."}
    THEN "generate_sql"
  ELSE IF IsValidationError(state.error) THEN "validate_sql"
  ELSE IF state.error[1][1] = "Query execution failed" THEN "execute_query"
  ELSE IF state.error[1][1] = "Insight generation failed" THEN "analyze_results"
  ELSE "unknown"

\* C27: a state that run returns with error set has insights and
\* visualization_spec absent, and has absent every optional field that a
\* stage after the failing one fills in: no query_result when generation,
\* validation or execution failed, no sql_query when generation failed.
C27_FailedStateHasNoDownstream ==
  (Returned /\ Truthy(state.error))
    => /\ state.insights = None
       /\ state.visualization_spec = None
       /\ FailedStage # "unknown"
       /\ FailedStage \in {"generate_sql", "validate_sql", "execute_query"}
            => state.query_result = None
       /\ FailedStage = "generate_sql" => state.sql_query = None

\* a run that failed in analyze_results on a two-column result
C27_Witness ==
  /\ Returned
  /\ FailedStage = "analyze_results"
  /\ state.query_result # None
  /\ state.query_result[1].cols = 2
  /\ state.insights = None
  /\ state.visualization_spec = None

\* C28: a generated SQL taken through the general workflow and through a
\* specialized agent with the same collaborator outcomes ends with the same
\* error, the same query_result, insights present in both or in neither, and
\* the same retry_count.
C28_TracksAgree ==
  pc = "tracks_done"
    => LET g == tracks.general[1]
           s == tracks.specialized[1]
       IN /\ g.error = s.error
          /\ g.query_result = s.query_result
          /\ (g.insights = None) <=> (s.insights = None)
          /\ g.retry_count = s.retry_count

\* both workflows recovered once from a failed execution and produced
\* insights, under different classifications
C28_Witness ==
  /\ pc = "tracks_done"
  /\ tracks.agent # ""
  /\ tracks.general[1].query_metadata # tracks.specialized[1].query_metadata
  /\ tracks.general[1].previous_errors # None
  /\ tracks.specialized[1].previous_errors = tracks.general[1].previous_errors
  /\ tracks.general[1].insights # None
  /\ tracks.specialized[1].insights # None
  /\ tracks.specialized[1].query_result # None

\* the entries of a cache whose time to live, counted from the cache_result
\* that stored them last, has run out at time t
PastTtl(c, t) == {k \in DOMAIN c : putlog[k].at + ttl_seconds <= t}

\* C29: the statistics report total = valid + expired, the total is the
\* number of stored entries, and expired is the number of stored entries
\* whose time to live has run out and that no lookup or sweep has removed;
\* taking the statistics removes nothing.
C29_StatsCountExpired ==
  svc.op = "stats"
    => LET stats == svc.result[1]
       IN /\ stats.total_entries = stats.valid_entries + stats.expired_entries
          /\ stats.total_entries = Cardinality(DOMAIN svc.pre_cache)
          /\ stats.expired_entries = Cardinality(PastTtl(svc.pre_cache, svc.at))
          /\ cache = svc.pre_cache

\* statistics taken of one entry at the instant it expires and one valid entry
C29_Witness ==
  /\ svc.op = "stats"
  /\ svc.result[1].total_entries = 2
  /\ svc.result[1].expired_entries = 1
  /\ svc.result[1].valid_entries = 1
  /\ \E k \in DOMAIN cache : cache[k].expires_at = svc.at

\* C30: cleanup_expired removes the stored entries whose time to live has run
\* out and no other, returns how many they were, leaves every other entry as
\* it was and retrievable, and statistics taken right afterwards report no
\* expired entry.
C30_SweepRemovesExpired ==
  svc.op = "cleanup"
    => /\ DOMAIN cache = (DOMAIN svc.pre_cache) \ PastTtl(svc.pre_cache, svc.at)
       /\ svc.result[1] = Cardinality(PastTtl(svc.pre_cache, svc.at))
       /\ \A k \in DOMAIN cache :
            /\ cache[k] = svc.pre_cache[k]
            /\ ~IsExpiredForGet(cache[k], svc.at)
       /\ get_cache_stats(cache, svc.at).expired_entries = 0

\* a sweep that removed an entry at the instant it expired and kept another
C30_Witness ==
  /\ svc.op = "cleanup"
  /\ svc.result[1] = 1
  /\ \E k \in DOMAIN svc.pre_cache :
       k \notin DOMAIN cache /\ svc.pre_cache[k].expires_at = svc.at
  /\ DOMAIN cache # {}

\* the entries of previous_errors (None is the empty history)
History(st) == IF st.previous_errors = None THEN <<>> ELSE st.previous_errors[1]

IsPrefix(a, b) == Len(a) <= Len(b) /\ SubSeq(b, 1, Len(a)) = a

\* the text part occurs in the text whole
ContainsText(whole, part) ==
  \E i \in 1..(Len(whole) - Len(part) + 1) : SubSeq(whole, i, i + Len(part) - 1) = part

\* the history grows by one entry at a failed execution attempt, and no
\* node removes or reorders entries
HistoryGrowsByOne ==
  /\ IsPrefix(History(last.pre), History(state))
  /\ Len(History(state)) = Len(History(last.pre)) + (IF RecoveryRan THEN 1 ELSE 0)

\* the recovery is a function of what it is given
RecoveryIsStateless ==
  RecoveryRan
    => \E llm \in LlmOutcomes(RecoveryAnswers) :
         state = [_recover_from_error(OnFailure(last.pre, calls.error_msg[1]),
                                      calls.error_msg[1], llm_available, llm)
                    EXCEPT !.retry_count = last.pre.retry_count + 1]

\* C31 as stated: the entry a failed attempt adds records the failed SQL
\* together with the error message.
C31_HistoryRecordsSqlAndError ==
  /\ HistoryGrowsByOne
  /\ RecoveryIsStateless
  /\ RecoveryRan
       => /\ ContainsText(History(state)[Len(History(state))], RecoveryFailedSql)
          /\ ContainsText(History(state)[Len(History(state))], calls.error_msg[1])

\* C31 amended: the entry a failed attempt adds is the error message of that
\* attempt (the failed SQL is not recorded); entries are never removed or
\* reordered; the recovery keeps no state of its own.
C31_HistoryRecordsError ==
  /\ HistoryGrowsByOne
  /\ RecoveryIsStateless
  /\ RecoveryRan => History(state)[Len(History(state))] = calls.error_msg[1]

\* the second failed attempt of a run added its message behind the first
C31_Witness ==
  /\ RecoveryRan
  /\ Len(History(state)) = 2
  /\ History(state)[1] # History(state)[2]
  /\ History(state)[2] = calls.error_msg[1]
  /\ History(last.pre) = <<History(state)[1]>>

\* the step just taken handed a text to the execution collaborator (the
\* BigQuery client): a lookup that missed, whether the call returned a
\* table, raised, or has not returned
ClientCalled ==
  /\ last.op = "execute_query"
  /\ last.outcome \in {"ok", "failed", "blocked"}

\* the text of state.sql_query that the step handed over
ExecutedSql == last.pre.sql_query[1]

\* C32: every SQL text passed to the execution collaborator during a run,
\* the generated one and every recovery-corrected one, is a text that
\* validate_sql accepts: no text with a forbidden keyword reaches the
\* executor.
C32_ExecutedSqlWasValidated ==
  ClientCalled => ValidationError(ExecutedSql) = None

\* format_agent_response (utils/formatters.py): "success" is
\* state.get("error") is None
ReportedSuccess(st) == st.error = None

\* C33: every final state returned by run has error populated or
\* query_result populated: a run never ends with neither, so a response
\* reported as success always carries results.
C33_FinalStateHasErrorOrResult ==
  Returned =>
    /\ state.error # None \/ state.query_result # None
    /\ ReportedSuccess(state) => state.query_result # None

\* recoveries that wrote a SQL text into the state (those that did not
\* return early on a failed text-generation call)
SuccessfulRecoveries == calls.recover - calls.gave_up

\* C34: every corrected SQL that the recovery writes into the state is
\* submitted to the execution collaborator before the run ends: a run that
\* executed at all made one execution call more than it had successful
\* recoveries.
C34_EveryCorrectionIsExecuted ==
  (Returned /\ calls.execute >= 1)
    => calls.execute = SuccessfulRecoveries + 1

\* C35: within one run the execution collaborator is never called again
\* with a SQL text identical to one whose execution already failed in that
\* run: a recovery that changes nothing does not trigger a re-execution.
C35_NoReexecutionOfFailedSql ==
  ClientCalled => ExecutedSql \notin last.calls.failed_sql

\* a direct call of BigQueryService.execute_query has returned or raised
ExecuteReturned == svc.op = "execute"

\* the slot the lookup of the call addresses
LookupKey == _generate_cache_key(svc.query, svc.limit_rows)

\* the entries of the cache before the call that the call's own lookup
\* found expired
ExpiredAtLookup ==
  {k \in DOMAIN svc.pre_cache :
     k = LookupKey /\ svc.use_cache /\ svc.at > svc.pre_cache[k].expires_at}

\* every entry is stored under the text of an execution that succeeded
HoldsOnlySuccessfulResults ==
  \A k \in DOMAIN cache :
    \E h \in done : k = _generate_cache_key(CachedUnder(h.query, h.limit_rows), h.limit_rows)

\* an execute call made with caching disabled calls the client and leaves
\* the cache as it was
UncachedCallBypassesCache ==
  (ExecuteReturned /\ ~svc.use_cache) => (svc.called /\ cache = svc.pre_cache)

\* C36 as stated: the cache only ever holds results of successful execution
\* calls, an execute call that fails leaves the cache unchanged, and an
\* execute call made with caching disabled neither reads nor writes the
\* cache.
C36_FailedExecuteLeavesCacheUnchanged ==
  /\ HoldsOnlySuccessfulResults
  /\ (ExecuteReturned /\ ~svc.ok) => cache = svc.pre_cache
  /\ UncachedCallBypassesCache

\* C36 amended: the cache only ever holds results of successful execution
\* calls; an execute call that fails stores nothing, and removes nothing but
\* the entry its own lookup found expired; an execute call made with caching
\* disabled neither reads nor writes the cache.
C36_FailedExecuteStoresNothing ==
  /\ HoldsOnlySuccessfulResults
  /\ (ExecuteReturned /\ ~svc.ok)
       => /\ DOMAIN cache = (DOMAIN svc.pre_cache) \ ExpiredAtLookup
          /\ \A k \in DOMAIN cache : cache[k] = svc.pre_cache[k]
  /\ UncachedCallBypassesCache

\* a failed call whose lookup removed the expired entry under its key
C36_Witness ==
  /\ ExecuteReturned
  /\ ~svc.ok
  /\ svc.use_cache
  /\ ExpiredAtLookup # {}
  /\ cache # svc.pre_cache

\* get_cached_result would hand out the entry under key k now
GetReturns(k) == ~IsExpiredForGet(cache[k], now)

\* get_cache_stats counts the entry under key k as valid now
StatsCountsValid(k) ==
  get_cache_stats([j \in {k} |-> cache[j]], now).valid_entries = 1

\* cleanup_expired would keep the entry under key k now
SweepKeeps(k) == k \in DOMAIN cleanup_expired(cache, now).cache

\* C37: the lookup, the statistics and the sweep agree on which stored
\* entries are expired at every instant, now = expires_at included: an entry
\* is handed out by the lookup iff the statistics count it as valid iff the
\* sweep would keep it.
C37_ExpiryAgreement ==
  \A k \in DOMAIN cache :
    /\ GetReturns(k) <=> StatsCountsValid(k)
    /\ StatsCountsValid(k) <=> SweepKeeps(k)

\* run has returned or raised
Terminated == pc \in {"END", "RAISED"}

\* the nodes still ahead of the node about to run
StagesAhead ==
  CASE pc = "understand_query" -> 7
    [] pc \in {"generate_sql", "agent"} -> 6
    [] pc = "validate_sql" -> 5
    [] pc \in {"execute_query", "in_client"} -> 4
    [] pc = "analyze_results" -> 3
    [] pc = "create_visualization" -> 2
    [] pc = "format_response" -> 1
    [] OTHER -> 0

\* a measure of the work a run has left: the nodes ahead and, within
\* execute_query, the invocations the retry bound still allows
RunRank == StagesAhead * (max_retries + 2) + (max_retries + 1 - Depth)

\* a step of the run in which every collaborator call returned: a node ran
\* (time passing is no step, a call that does not return is excluded)
RunStep == last' # last /\ pc' # "in_client"

\* the resource bounds of one run
RunWithinBounds ==
  /\ calls.execute <= max_retries + 1
  /\ calls.client <= max_retries + 1
  /\ calls.recover <= max_retries
  /\ Depth <= max_retries + 1
  /\ RunRank >= 0

\* C38: when every collaborator call returns, run ends in a terminal state
\* after at most max_retries + 1 execution calls and at most max_retries
\* recovery calls, and execute_query is never nested deeper than
\* max_retries + 1: the bounds hold in every state, and every step of the
\* run lowers a measure that cannot fall below zero.
C38_RunTerminatesWithinBounds ==
  /\ []RunWithinBounds
  /\ [][RunStep => RunRank' < RunRank]_vars

\* two failed executions and two recoveries, and then the third, innermost
\* invocation of execute_query, which stopped at the retry bound
C38_Witness ==
  /\ last.op = "execute_query"
  /\ last.outcome = "skipped"
  /\ calls.execute = max_retries
  /\ calls.recover = max_retries
  /\ Depth = max_retries + 1

====
